---- MODULE Spec2Model ----
(***************************************************************************)
(* State-machine model of the P2P messaging core of ultimate-agent:        *)
(*   - CSPFaultTolerance (network/p2p/fault_tolerance.py): retry loop and  *)
(*     the per-key circuit breaker;                                         *)
(*   - QuantumEncryptionProtocol (network/p2p/quantum_crypto.py): session  *)
(*     keys, envelopes, inbound sequence watermark;                        *)
(*   - CSPAdaptiveRouting (network/p2p/adaptive_routing.py): the metrics   *)
(*     table, peer scores and route selection;                             *)
(*   - QuantumEnhancedP2PManager (network/p2p/quantum_enhanced_p2p.py):    *)
(*     the node that composes the three, its listener, background tasks,   *)
(*     sends and inbound connections.                                      *)
(* Each subsystem has its own specification: SpecFT for the fault          *)
(* executor; SpecCrypto for the encryption protocol, with SpecOutbound     *)
(* (encryption including the calls that fail) and SpecTamper (envelopes    *)
(* altered on the way) for its two sides; SpecRouting for the router and   *)
(* SpecEma for the moving average of its metrics in floating point;        *)
(* SpecManager for the life cycle and the sends of the node and            *)
(* SpecInbound for the connections it accepts; SpecWire for sends in       *)
(* flight at the same time, SpecCleanup for the cleanup loop under a       *)
(* moving clock and SpecLifecycle for repeated starts and stops.           *)
(* SpecRecovery is the fault executor under fairness: callers keep         *)
(* calling, calls return and time goes on.                                 *)
(* The variables of the other subsystems stay at their initial value.      *)
(***************************************************************************)
EXTENDS Naturals, Integers, Sequences, FiniteSets, Bags, TLC

VARIABLES
    ft,                   \* the CSPFaultTolerance object (its dict fields and config)
    now,                  \* time.time(), in whole seconds
    calls,                \* the execute_with_fault_tolerance calls in flight (a bag of frames)
    invocations,          \* number of times the wrapped operation was invoked so far
    last_event,           \* observation: what the last step did
    trip_run,             \* observation: per key, length of its run of single-attempt failing calls
    consecutive_failures, \* observation: failures recorded per key since the last success
    half_open_successes,  \* observation: successes recorded per key since it went HALF_OPEN
    half_open_period,     \* observation: per key, how many times it went OPEN -> HALF_OPEN
    last_failure_at,      \* observation: per key, when its last failure was recorded
    protocol,             \* per node: its QuantumEncryptionProtocol object
    secrets_drawn,        \* number of 32-byte secrets drawn from secrets.token_bytes
    envelopes,            \* the envelopes quantum_encrypt has returned so far
    accepted,             \* observation: per node, the (envelope, sender) pairs it decrypted
                          \* (envelopes as they were emitted)
    origin,               \* observation: per emitted envelope, who encrypted what for whom
    last_decrypt,         \* observation: the last quantum_decrypt call and what it returned
    router,               \* the CSPAdaptiveRouting object
    last_route,           \* observation: the last find_optimal_route call and its result
    ema,                  \* one metric under the moving average, in floating point
    mgr,                  \* the QuantumEnhancedP2PManager object
    net,                  \* the sockets: listeners bound, frames written and read, and
                          \* (observation) the envelopes emitted and written, and when
    tasks,                \* the background tasks start_network created
    sends,                \* the send_quantum_encrypted_message calls in flight
    conns,                \* the inbound connections: per peer address, whether it is open
                          \* and (observation) what quantum_decrypt logged on it
    mgr_event             \* observation: what the last step of the manager did

ftVars == <<ft, calls, invocations, last_event, trip_run, consecutive_failures,
            half_open_successes, half_open_period, last_failure_at>>

cryptoVars == <<protocol, secrets_drawn, envelopes, accepted, origin, last_decrypt>>

routeVars == <<router, last_route>>

emaVars == <<ema>>

mgrVars == <<mgr, net, tasks, sends, conns, mgr_event>>

vars == <<ft, now, calls, invocations, last_event, trip_run, consecutive_failures,
          half_open_successes, half_open_period, last_failure_at,
          protocol, secrets_drawn, envelopes, accepted, origin, last_decrypt,
          router, last_route, ema, mgr, net, tasks, sends, conns, mgr_event>>

(***************************************************************************)
(* Bounds of the model.                                                    *)
(***************************************************************************)
MaxInFlight == 2
MaxInvocations == 3
MaxTime == 2
MaxRetries == 1
MaxFailureThreshold == 2
TimeoutSeconds == 1
HalfOpenMaxCalls == 1
MaxSuccessThreshold == 2
MaxEnvelopes == 2
ClockStep == 3600
MaxClock == 7200
MaxSecrets == 2
MaxFailedEncrypts == 1
MaxRecords == 2
MaxCandidates == 2
MaxRouteTicks == 1
MaxFrames == 3
MaxInFlightSends == 2
MaxGenerations == 2
SweepStep == 150
MaxSweepClock == 450
MaxInboundSeq == 2
MaxSample == 8
MaxStarts == 1
MaxSends == 2

Peers == {"peer1"}
OpTypes == {"test_op"}
\* str(e) of the exceptions the wrapped operation raises; str(ValueError()) is "".
AppErrors == {"Simulated failure", ""}

NodeIds == {"alice", "bob"}
Plaintexts == {"Hello quantum world!", "Test message"}
\* a value handed to quantum_encrypt as data that is not a bytes object (a str)
NotBytes == "<str>"
\* values of secrets.token_bytes(12)
Nonces == {"n1"}

\* Python's None.
NoneVal == "None"

(***************************************************************************)
(* fault_tolerance.py                                                      *)
(***************************************************************************)
CLOSED == "closed"
OPEN == "open"
HALF_OPEN == "half_open"

CircuitKey(peer_id, operation_type) == peer_id \o ":" \o operation_type

CircuitKeys == {CircuitKey(p, o) : p \in Peers, o \in OpTypes}

\* The four fields of CircuitBreakerConfig, which callers overwrite per instance
\* (ft.config.failure_threshold = 2 in the tests).
CircuitBreakerConfig ==
    [failure_threshold : 1..MaxFailureThreshold,
     timeout_seconds : {TimeoutSeconds},
     half_open_max_calls : {HalfOpenMaxCalls},
     success_threshold : 1..MaxSuccessThreshold]

\* dict.get(key, default)
DictGet(d, key, default) == IF key \in DOMAIN d THEN d[key] ELSE default

\* d[key] = value on a plain dict (the key is added when absent)
DictSet(d, key, value) ==
    [x \in (DOMAIN d) \cup {key} |-> IF x = key THEN value ELSE d[x]]

\* CSPFaultTolerance.__init__: the defaultdicts read as their default everywhere.
NewFaultTolerance(cfg) ==
    [failure_counts |-> [k \in CircuitKeys |-> 0],
     last_failure_times |-> <<>>,
     circuit_states |-> [k \in CircuitKeys |-> CLOSED],
     half_open_calls |-> [k \in CircuitKeys |-> 0],
     success_counts |-> [k \in CircuitKeys |-> 0],
     config |-> cfg]

\* Variant of TimeoutHasPassed that does not wait for the timeout.
TimeoutNotAwaited(self, circuit_key) ==
    now - DictGet(self.last_failure_times, circuit_key, 0) >= 0

\* the comparison of _can_execute's OPEN branch (line 120)
TimeoutHasPassed(self, circuit_key) ==
    now - DictGet(self.last_failure_times, circuit_key, 0) > self.config.timeout_seconds

\* _can_execute: its return value and the object after the call
_can_execute(self, circuit_key) ==
    LET state == self.circuit_states[circuit_key] IN
    IF state = CLOSED THEN [ret |-> TRUE, self |-> self]
    ELSE IF state = OPEN THEN
        IF TimeoutHasPassed(self, circuit_key)
        THEN [ret |-> TRUE,
              self |-> [self EXCEPT !.circuit_states[circuit_key] = HALF_OPEN,
                                    !.half_open_calls[circuit_key] = 0,
                                    !.success_counts[circuit_key] = 0]]
        ELSE [ret |-> FALSE, self |-> self]
    ELSE IF state = HALF_OPEN THEN
        [ret |-> self.half_open_calls[circuit_key] < self.config.half_open_max_calls,
         self |-> self]
    ELSE [ret |-> FALSE, self |-> self]

\* Variant of _record_success that closes the circuit one success late.
_record_success_late(self, circuit_key) ==
    LET state == self.circuit_states[circuit_key] IN
    IF state = HALF_OPEN THEN
        LET counted == [self EXCEPT !.success_counts[circuit_key] = @ + 1] IN
        IF counted.success_counts[circuit_key] > self.config.success_threshold
        THEN [counted EXCEPT !.circuit_states[circuit_key] = CLOSED,
                             !.failure_counts[circuit_key] = 0]
        ELSE counted
    ELSE IF state = CLOSED THEN [self EXCEPT !.failure_counts[circuit_key] = 0]
    ELSE self

\* Variant of _record_success that takes an OPEN circuit as a HALF_OPEN one.
_record_success_when_open(self, circuit_key) ==
    LET state == self.circuit_states[circuit_key] IN
    IF state \in {HALF_OPEN, OPEN} THEN
        LET counted == [self EXCEPT !.success_counts[circuit_key] = @ + 1] IN
        IF counted.success_counts[circuit_key] >= self.config.success_threshold
        THEN [counted EXCEPT !.circuit_states[circuit_key] = CLOSED,
                             !.failure_counts[circuit_key] = 0]
        ELSE counted
    ELSE IF state = CLOSED THEN [self EXCEPT !.failure_counts[circuit_key] = 0]
    ELSE self

\* Variant of _record_success that counts nothing and closes nothing.
_record_success_uncounted(self, circuit_key) == self

\* _record_success: the object after the call
_record_success(self, circuit_key) ==
    LET state == self.circuit_states[circuit_key] IN
    IF state = HALF_OPEN THEN
        LET counted == [self EXCEPT !.success_counts[circuit_key] = @ + 1] IN
        IF counted.success_counts[circuit_key] >= self.config.success_threshold
        THEN [counted EXCEPT !.circuit_states[circuit_key] = CLOSED,
                             !.failure_counts[circuit_key] = 0]
        ELSE counted
    ELSE IF state = CLOSED THEN [self EXCEPT !.failure_counts[circuit_key] = 0]
    ELSE self

\* Variant of _record_failure that opens the circuit one failure late.
_record_failure_late(self, circuit_key) ==
    LET counted == [self EXCEPT
                       !.failure_counts[circuit_key] = @ + 1,
                       !.last_failure_times = DictSet(@, circuit_key, now)]
        state == self.circuit_states[circuit_key]
    IN
    IF state = CLOSED THEN
        IF counted.failure_counts[circuit_key] > self.config.failure_threshold
        THEN [counted EXCEPT !.circuit_states[circuit_key] = OPEN]
        ELSE counted
    ELSE IF state = HALF_OPEN THEN [counted EXCEPT !.circuit_states[circuit_key] = OPEN]
    ELSE counted

\* Variant of _record_failure that leaves a HALF_OPEN circuit as it is.
_record_failure_keeps_half_open(self, circuit_key) ==
    LET counted == [self EXCEPT
                       !.failure_counts[circuit_key] = @ + 1,
                       !.last_failure_times = DictSet(@, circuit_key, now)]
        state == self.circuit_states[circuit_key]
    IN
    IF state = CLOSED THEN
        IF counted.failure_counts[circuit_key] >= self.config.failure_threshold
        THEN [counted EXCEPT !.circuit_states[circuit_key] = OPEN]
        ELSE counted
    ELSE counted

\* _record_failure: the object after the call
_record_failure(self, circuit_key) ==
    LET counted == [self EXCEPT
                       !.failure_counts[circuit_key] = @ + 1,
                       !.last_failure_times = DictSet(@, circuit_key, now)]
        state == self.circuit_states[circuit_key]
    IN
    IF state = CLOSED THEN
        IF counted.failure_counts[circuit_key] >= self.config.failure_threshold
        THEN [counted EXCEPT !.circuit_states[circuit_key] = OPEN]
        ELSE counted
    ELSE IF state = HALF_OPEN THEN [counted EXCEPT !.circuit_states[circuit_key] = OPEN]
    ELSE counted

Max(a, b) == IF a >= b THEN a ELSE b

\* _get_retry_delay
_get_retry_delay(self, circuit_key) ==
    IF self.circuit_states[circuit_key] = OPEN
    THEN Max(0, self.config.timeout_seconds
                - (now - DictGet(self.last_failure_times, circuit_key, 0)))
    ELSE 0

\* Python truthiness of last_exception in `last_exception or "max_retries_exceeded"`
Truthy(s) == s # NoneVal /\ s # ""

\* the dict returned after the loop (lines 103-109)
ExhaustedResult(self, c) ==
    [success |-> FALSE,
     error |-> IF Truthy(c.last_exception) THEN c.last_exception
               ELSE "max_retries_exceeded",
     attempts |-> c.max_retries + 1,
     peer_id |-> c.peer_id,
     retry_after |-> _get_retry_delay(self, c.circuit_key)]

\* the dict returned on success (lines 71-76)
SuccessResult(c) ==
    [success |-> TRUE, result |-> "value", attempts |-> c.attempt + 1,
     peer_id |-> c.peer_id]

\* the dict returned from the CancelledError handler (lines 85-89)
CancelledResult(c) ==
    [success |-> FALSE, error |-> "cancelled", attempts |-> c.attempt + 1]

\* the dict returned when the circuit breaker refuses the call (lines 52-56)
RefusedResult(self, circuit_key) ==
    [success |-> FALSE, error |-> "circuit_breaker_open",
     retry_after |-> _get_retry_delay(self, circuit_key)]

\* The frame of a call at its start (lines 48-58): max_retries is the caller's,
\* attempt the loop variable; invoked counts the invocations of the operation,
\* began_in is the circuit state the call was admitted in and period the key's
\* HALF_OPEN period then.
NewCall(peer_id, circuit_key, max_retries, began_in, period) ==
    [pc |-> "running", peer_id |-> peer_id, circuit_key |-> circuit_key,
     max_retries |-> max_retries, attempt |-> 0, last_exception |-> NoneVal,
     invoked |-> 1, began_in |-> began_in, period |-> period]

\* `for attempt in range(max_retries + 1)`: another iteration follows this one
\* (the same test as line 99's `attempt < max_retries`, which guards the sleep)
AnotherAttempt(c) == c.attempt + 1 < c.max_retries + 1

Frames == BagToSet(calls)

\* calls with frame c replaced by frame d
Replace(c, d) == (calls (-) SetToBag({c})) (+) SetToBag({d})

\* calls without frame c
Remove(c) == calls (-) SetToBag({c})

NoEvent ==
    [kind |-> "none", key |-> NoneVal, from |-> NoneVal, returned |-> FALSE,
     began_in |-> NoneVal, max_retries |-> 0, invoked |-> 0, reason |-> NoneVal,
     nth |-> 0, result |-> NoneVal]

\* a step of frame c that does not end its call; `from` is the circuit state before it
Did(kind, c) ==
    [NoEvent EXCEPT !.kind = kind, !.key = c.circuit_key,
                    !.from = ft.circuit_states[c.circuit_key]]

\* a step of frame c that ends its call with `result`
Returned(kind, c, result, nth) ==
    [kind |-> kind, key |-> c.circuit_key, from |-> ft.circuit_states[c.circuit_key],
     returned |-> TRUE, began_in |-> c.began_in, max_retries |-> c.max_retries, invoked |-> c.invoked,
     reason |-> c.last_exception, nth |-> nth, result |-> result]

\* trip_run[k] = n >= 0: the n calls made on k so far were made one after the other,
\* each with max_retries = 0 and each ended by the operation failing or by the
\* breaker refusing it, and none was made after the breaker's timeout had passed;
\* trip_run[k] = -1: they were not.
TripRunAtCall(circuit_key, max_retries) ==
    IF /\ trip_run[circuit_key] >= 0
       /\ max_retries = 0
       /\ \A c \in Frames : c.circuit_key # circuit_key
       /\ ~(/\ ft.circuit_states[circuit_key] = OPEN
            /\ now - DictGet(ft.last_failure_times, circuit_key, 0)
                   > ft.config.timeout_seconds)
    THEN trip_run[circuit_key]
    ELSE -1

\* (counted up to failure_threshold + 1: the later calls are like that one)
Bump(n) ==
    IF n < 0 THEN -1 ELSE IF n > ft.config.failure_threshold THEN n ELSE n + 1

(***************************************************************************)
(* QuantumEncryptionProtocol (network/p2p/quantum_crypto.py).              *)
(* Byte strings are terms: a derived key, a ciphertext, a tag and a MAC    *)
(* are the tuples of what they were computed from, so two of them are      *)
(* equal exactly when they were computed from equal inputs.                *)
(***************************************************************************)
ttl_seconds == 3600

\* HKDF(SHA256, length 32, salt, info).derive(key_material)
HKDF(salt, info, key_material) == <<"hkdf", salt, info, key_material>>

\* AES-GCM: the ciphertext depends on key, nonce and data; the tag also on the AAD.
GcmCiphertext(key, nonce, data) == <<"gcm", key, nonce, data>>

GcmTag(key, nonce, aad, ciphertext) == <<"tag", key, nonce, aad, ciphertext>>

\* decryptor.finalize(): the plaintext, or InvalidTag raised
GcmDecrypt(key, nonce, aad, ciphertext, tag) ==
    IF tag = GcmTag(key, nonce, aad, ciphertext)
       /\ ciphertext[1] = "gcm" /\ ciphertext[2] = key /\ ciphertext[3] = nonce
    THEN [ok |-> TRUE, plaintext |-> ciphertext[4]]
    ELSE [ok |-> FALSE, plaintext |-> NoneVal]

\* hmac.new(key, nonce + seq_bytes + ciphertext + tag, sha256).digest()
Hmac(key, nonce, seq_bytes, ciphertext, tag) ==
    <<"hmac", key, nonce, seq_bytes, ciphertext, tag>>

\* bytes.hex() writes lower-case digits; bytes.fromhex() reads either case.
Hex(b) == [bytes |-> b, upper |-> FALSE]

FromHex(h) == h.bytes

\* int.to_bytes(8, 'big')
ToBytes8(n) == <<"u64", n>>

QuantumKey(key_id, symmetric_key, created_at, peer_id) ==
    [key_id |-> key_id, symmetric_key |-> symmetric_key, created_at |-> created_at,
     peer_id |-> peer_id, sequence_number |-> 0]

\* Variant of is_expired for which no key ever expires.
is_expired_never(key, ttl) == FALSE

is_expired(key, ttl) == now - key.created_at > ttl

NewProtocol(node_id) ==
    [node_id |-> node_id, key_store |-> <<>>, sequence_numbers |-> <<>>]

\* _get_or_create_key; symmetric_key is the value secrets.token_bytes(32) would return
_get_or_create_key(self, peer_id, symmetric_key) ==
    LET key_id == self.node_id \o ":" \o peer_id
    IN  IF key_id \in DOMAIN self.key_store
           /\ ~is_expired(self.key_store[key_id], ttl_seconds)
        THEN [self |-> self, key_id |-> key_id, created |-> FALSE]
        ELSE [self |-> [self EXCEPT !.key_store =
                           DictSet(@, key_id,
                                   QuantumKey(key_id, symmetric_key, now, peer_id))],
              key_id |-> key_id, created |-> TRUE]

\* encryptor.update(data) accepts bytes and raises TypeError for anything else
IsBytes(data) == data # NotBytes

\* a node id str.encode() raises UnicodeEncodeError for: a lone surrogate
Unencodable == "\\ud800"

\* f"{self.node_id}:{target_node}".encode() of line 59 succeeds
Encodable(target_node) == target_node # Unencodable

\* Variant of Incremented that loses the update of the counter.
IncrementLost(self, key_id) == self

\* `quantum_key.sequence_number += 1`, line 52, on the record in the key store
Incremented(self, key_id) ==
    [self EXCEPT !.key_store[key_id].sequence_number = @ + 1]

\* quantum_encrypt: the object after the call and the envelope returned; the counter
\* is incremented (line 52) before the info string is encoded (line 59) and before
\* encryptor.update can raise (line 73)
quantum_encrypt(self, data, target_node, nonce, symmetric_key) ==
    LET g == _get_or_create_key(self, target_node, symmetric_key)
        sequence_number == g.self.key_store[g.key_id].sequence_number + 1
        self1 == Incremented(g.self, g.key_id)
        quantum_key == self1.key_store[g.key_id]
        derived_key == HKDF(nonce, self.node_id \o ":" \o target_node,
                            quantum_key.symmetric_key)
        seq_bytes == ToBytes8(sequence_number)
        ciphertext == GcmCiphertext(derived_key, nonce, data)
        tag == GcmTag(derived_key, nonce, seq_bytes, ciphertext)
        hmac_key == HKDF("hmac_salt", "quantum_p2p_hmac", quantum_key.symmetric_key)
        message_hmac == Hmac(hmac_key, nonce, seq_bytes, ciphertext, tag)
    IN  IF ~Encodable(target_node)
        THEN [self |-> self1, created |-> g.created,
              ret |-> [encrypted |-> FALSE, error |-> "UnicodeEncodeError"]]
        ELSE IF ~IsBytes(data)
        THEN [self |-> self1, created |-> g.created,
              ret |-> [encrypted |-> FALSE, error |-> "TypeError"]]
        ELSE [self |-> self1, created |-> g.created,
              ret |-> [encrypted |-> TRUE,
                       nonce |-> Hex(nonce),
                       ciphertext |-> Hex(ciphertext),
                       tag |-> Hex(tag),
                       sequence |-> sequence_number,
                       key_id |-> quantum_key.key_id,
                       hmac |-> Hex(message_hmac)]]

\* a replay test that lets every sequence through
ReplayNever(sequence, last_seq) == FALSE

\* a replay test that lets the watermark's own sequence through
ReplayStrictlyBelow(sequence, last_seq) == sequence < last_seq

\* the replay test of quantum_decrypt
Replay(sequence, last_seq) == sequence <= last_seq

\* Variant of HmacMismatch that lets every MAC through.
HmacUnchecked(received_hmac, expected_hmac) == FALSE

\* `not hmac.compare_digest(received_hmac, expected_hmac)`, line 141
HmacMismatch(received_hmac, expected_hmac) == received_hmac # expected_hmac

\* Variant of DecryptInfo with the two node ids the other way round.
DecryptInfoReversed(self, sender_node) == self.node_id \o ":" \o sender_node

\* the HKDF info of quantum_decrypt, line 150
DecryptInfo(self, sender_node) == sender_node \o ":" \o self.node_id

\* the keys quantum_decrypt reads from encrypted_data (lines 106-125); a missing
\* one raises KeyError, which the handler of line 168 turns into None
RequiredFields == {"key_id", "sequence", "nonce", "ciphertext", "tag", "hmac"}

\* Variant of Reject that takes the watermark to the rejected envelope's sequence.
RejectAndMark(self, encrypted_data, sender_node, log) ==
    [self |-> IF "sequence" \in DOMAIN encrypted_data
              THEN [self EXCEPT !.sequence_numbers =
                       DictSet(@, sender_node, encrypted_data.sequence)]
              ELSE self,
     ret |-> NoneVal, log |-> log]

\* a failed quantum_decrypt: `return None` after logger.error (lines 108-109,
\* 118-119, 142-143, 169-170); log is the message logged
Reject(self, encrypted_data, sender_node, log) ==
    [self |-> self, ret |-> NoneVal, log |-> log]

\* quantum_decrypt: the object after the call, the value returned and the error logged
quantum_decrypt(self, encrypted_data, sender_node) ==
    IF ~(RequiredFields \subseteq DOMAIN encrypted_data)
    THEN Reject(self, encrypted_data, sender_node, "Decryption failed")
    ELSE
    LET key_id == encrypted_data.key_id
    IN  IF key_id \notin DOMAIN self.key_store
        THEN Reject(self, encrypted_data, sender_node, "Unknown key ID")
        ELSE
        LET quantum_key == self.key_store[key_id]
            sequence == encrypted_data.sequence
            last_seq == DictGet(self.sequence_numbers, sender_node, 0)
        IN  IF Replay(sequence, last_seq)
            THEN Reject(self, encrypted_data, sender_node, "Replay attack detected")
            ELSE
            LET nonce == FromHex(encrypted_data.nonce)
                ciphertext == FromHex(encrypted_data.ciphertext)
                tag == FromHex(encrypted_data.tag)
                received_hmac == FromHex(encrypted_data.hmac)
                hmac_key == HKDF("hmac_salt", "quantum_p2p_hmac",
                                 quantum_key.symmetric_key)
                seq_bytes == ToBytes8(sequence)
                expected_hmac == Hmac(hmac_key, nonce, seq_bytes, ciphertext, tag)
            IN  IF HmacMismatch(received_hmac, expected_hmac)
                THEN Reject(self, encrypted_data, sender_node,
                            "HMAC verification failed")
                ELSE
                LET derived_key == HKDF(nonce, DecryptInfo(self, sender_node),
                                        quantum_key.symmetric_key)
                    d == GcmDecrypt(derived_key, nonce, seq_bytes, ciphertext, tag)
                IN  IF ~d.ok
                    THEN Reject(self, encrypted_data, sender_node, "Decryption failed")
                    ELSE [self |-> [self EXCEPT !.sequence_numbers =
                                       DictSet(@, sender_node, sequence)],
                          ret |-> d.plaintext, log |-> NoneVal]

NoDecrypt ==
    [called |-> FALSE, seen |-> FALSE, stale |-> FALSE, tampered |-> "no",
     sequence |-> 0, ret |-> NoneVal]

(***************************************************************************)
(* CSPAdaptiveRouting (network/p2p/adaptive_routing.py).                   *)
(* Scores are floats in the code; here they are integers in fixed units:   *)
(* a score s is held as s * ScoreOne and a confidence c as                 *)
(* c * ConfidenceOne, and exp(-age / 300) is read from a table in          *)
(* thousandths at the ages the clock of the model takes.                   *)
(***************************************************************************)
RoutePeers == {"peer1", "peer2"}

\* (latency_ms, bandwidth_mbps, success) triples handed to record_route_performance;
\* multiples of 100 keep the moving averages whole numbers over two updates
Measurements ==
    {<<100, 200, TRUE>>, <<200, 100, TRUE>>, <<1000, 200, TRUE>>, <<2000, 100, TRUE>>,
     <<2000, 0, TRUE>>, <<200, 100, FALSE>>}

\* the peers measured and offered as candidates, and the targets asked for
Targets == {"target", "peer1"}

\* the age step of the model's clock: 300 s, the time constant of line 103
AgeUnit == 300

\* 1000 * exp(-h / 2), rounded, for h = 0 .. 8
ExpHalves == <<1000, 607, 368, 223, 135, 82, 50, 30, 18>>

\* 1000 * math.exp(-age_seconds / time_constant) for an age that is a multiple of
\* AgeUnit and a time constant of 300 or 600
ExpPermille(age_seconds, time_constant) ==
    ExpHalves[((2 * age_seconds) \div time_constant) + 1]

\* success rates have denominators up to 4: a rate num / den is held as
\* RateOne * num \div den
RateOne == 12

\* the units of a score: 10 (latency_ms / 10) * 10 (weights in tenths) * RateOne
\* * 1000 (age factor in thousandths)
ScoreOne == 1200000

\* the units of a confidence: 1.0
ConfidenceOne == 120000000

\* float('inf')
Infinity == 1000000

Min(a, b) == IF a <= b THEN a ELSE b

RouteMetrics(latency_ms, bandwidth_mbps, success_rate, last_updated) ==
    [latency_ms |-> latency_ms, bandwidth_mbps |-> bandwidth_mbps,
     success_rate |-> success_rate, last_updated |-> last_updated]

RouteInfo(route, confidence, estimated_latency, optimization_reason) ==
    [route |-> route, confidence |-> confidence,
     estimated_latency |-> estimated_latency,
     optimization_reason |-> optimization_reason]

NewRouting(node_id) ==
    [node_id |-> node_id, peer_metrics |-> <<>>, route_history |-> <<>>]

RECURSIVE SumSeq(_)
SumSeq(q) == IF q = <<>> THEN 0 ELSE Head(q) + SumSeq(Tail(q))

\* record_route_performance: the object after the call. success_rate is held as
\* RateOne * sum(history) / len(history).
record_route_performance(self, peer_id, latency_ms, bandwidth_mbps, success) ==
    LET history == Append(DictGet(self.route_history, peer_id, <<>>),
                          IF success THEN 1 ELSE 0)
    IN  IF peer_id \in DOMAIN self.peer_metrics
        THEN LET current_metrics == self.peer_metrics[peer_id]
                 new_latency == (3 * latency_ms + 7 * current_metrics.latency_ms) \div 10
                 new_bandwidth ==
                     (3 * bandwidth_mbps + 7 * current_metrics.bandwidth_mbps) \div 10
                 new_success_rate == (RateOne * SumSeq(history)) \div Len(history)
             IN  [self EXCEPT
                    !.route_history = DictSet(@, peer_id, history),
                    !.peer_metrics = DictSet(@, peer_id,
                        RouteMetrics(new_latency, new_bandwidth, new_success_rate, now))]
        ELSE [self EXCEPT
                !.route_history = DictSet(@, peer_id, history),
                !.peer_metrics = DictSet(@, peer_id,
                    RouteMetrics(latency_ms, bandwidth_mbps,
                                 IF success THEN RateOne ELSE 0, now))]

\* _calculate_peer_score, in units of 1 / ScoreOne
_calculate_peer_score(self, peer_id) ==
    IF peer_id \notin DOMAIN self.peer_metrics THEN 50 * ScoreOne
    ELSE LET metrics == self.peer_metrics[peer_id]
             age_seconds == now - metrics.last_updated
             age_factor == ExpPermille(age_seconds, 300)
             \* latency_score * 10, bandwidth_score * 10, reliability_score * RateOne
             latency_score == Max(0, 1000 - metrics.latency_ms)
             bandwidth_score == Min(1000, metrics.bandwidth_mbps * 20)
             reliability_score == metrics.success_rate * 100
             performance_score == latency_score * 4 * RateOne
                                    + bandwidth_score * 3 * RateOne
                                    + reliability_score * 3 * 10
         IN  performance_score * age_factor

\* _estimate_latency
_estimate_latency(self, peer, target) ==
    LET peer_latency == IF peer \in DOMAIN self.peer_metrics
                        THEN self.peer_metrics[peer].latency_ms ELSE 100
        target_latency == 50
    IN  peer_latency + target_latency

\* _calculate_confidence, in units of 1 / ConfidenceOne
_calculate_confidence(self, metrics) ==
    LET age_seconds == now - metrics.last_updated
        age_factor == ExpPermille(age_seconds, 600)
        performance_factor ==
            (100 - Min(metrics.latency_ms, 100)) * 4 * RateOne
              + Min(metrics.bandwidth_mbps, 100) * 3 * RateOne
              + metrics.success_rate * 300
    IN  Min(age_factor * performance_factor * 10, ConfidenceOne)

\* an unstable sort: the last peer in list order whose score no other peer's exceeds
LastBestScored(self, peers) ==
    LET i == CHOOSE j \in 1..Len(peers) :
                 /\ \A k \in 1..Len(peers) :
                        _calculate_peer_score(self, peers[k])
                            <= _calculate_peer_score(self, peers[j])
                 /\ \A k \in (j + 1)..Len(peers) :
                        _calculate_peer_score(self, peers[k])
                            < _calculate_peer_score(self, peers[j])
    IN  peers[i]

\* the first element of scored_peers after the stable sort by descending score of
\* line 83: the first peer in list order whose score no other peer's exceeds
BestScored(self, peers) ==
    LET i == CHOOSE j \in 1..Len(peers) :
                 /\ \A k \in 1..Len(peers) :
                        _calculate_peer_score(self, peers[k])
                            <= _calculate_peer_score(self, peers[j])
                 /\ \A k \in 1..(j - 1) :
                        _calculate_peer_score(self, peers[k])
                            < _calculate_peer_score(self, peers[j])
    IN  peers[i]

\* a multihop search that gives up when no candidate has been measured
_find_measured_multihop_route(self, target, peers) ==
    IF \A i \in 1..Len(peers) : peers[i] \notin DOMAIN self.peer_metrics
    THEN RouteInfo(<<>>, 0, Infinity, "no_viable_routes")
    ELSE LET best_peer == BestScored(self, peers)
         IN  RouteInfo(<<self.node_id, best_peer, target>>,
                       Min(_calculate_peer_score(self, best_peer), ConfidenceOne),
                       _estimate_latency(self, best_peer, target), "best_peer_score")

_find_best_multihop_route(self, target, peers) ==
    IF peers = <<>>
    THEN RouteInfo(<<>>, 0, Infinity, "no_viable_routes")
    ELSE LET best_peer == BestScored(self, peers)
             best_score == _calculate_peer_score(self, best_peer)
             latency == _estimate_latency(self, best_peer, target)
             confidence == Min(best_score, ConfidenceOne)
         IN  RouteInfo(<<self.node_id, best_peer, target>>, confidence, latency,
                       "best_peer_score")

InPeers(target, peers) == \E i \in 1..Len(peers) : peers[i] = target

\* msg_type is accepted and never read
find_optimal_route(self, target, msg_type, peers) ==
    IF peers = <<>>
    THEN RouteInfo(<<>>, 0, Infinity, "no_peers_available")
    ELSE IF InPeers(target, peers) /\ target \in DOMAIN self.peer_metrics
         THEN LET metrics == self.peer_metrics[target]
              IN  RouteInfo(<<self.node_id, target>>,
                            _calculate_confidence(self, metrics),
                            metrics.latency_ms, "direct_route_optimal")
         ELSE _find_best_multihop_route(self, target, peers)

NoRoute == [called |-> FALSE, target |-> NoneVal, peers |-> <<>>,
            info |-> RouteInfo(<<>>, 0, 0, NoneVal)]

\* The router before any call.
RouterIdle ==
    /\ router = NewRouting("node1")
    /\ last_route = NoRoute

(***************************************************************************)
(* Floating point.  The metrics are Python floats; a float is held here as *)
(* a whole number of 2^-FracBits, and every operation rounds its exact     *)
(* result to MantissaBits significant bits, ties to even, as IEEE 754      *)
(* does with 53.                                                           *)
(***************************************************************************)
FracBits == 10

\* the significand: 5 bits here, 53 in a Python float
MantissaBits == 5

RECURSIVE Pow2(_)
Pow2(n) == IF n = 0 THEN 1 ELSE 2 * Pow2(n - 1)

\* the spacing of the floats around n > 0: the power of two q with
\* q * 2^(MantissaBits - 1) <= n < q * 2^MantissaBits (1 for smaller n)
RECURSIVE Ulp(_)
Ulp(n) == IF n < Pow2(MantissaBits) THEN 1 ELSE 2 * Ulp(n \div 2)

\* n >= 0 rounded to MantissaBits significant bits, ties to even
RoundTo(n) ==
    LET q == Ulp(n)
        lo == n - (n % q)
    IN  IF 2 * (n % q) < q THEN lo
        ELSE IF 2 * (n % q) > q THEN lo + q
        ELSE IF (lo \div q) % 2 = 0 THEN lo ELSE lo + q

\* the float nearest to num / den
FloatOf(num, den) == RoundTo((num * Pow2(2 * FracBits)) \div den) \div Pow2(FracBits)

\* a + b, a - b (a >= b) and a * b in floating point
FAdd(a, b) == RoundTo(a + b)
FSub(a, b) == RoundTo(a - b)
FMul(a, b) == RoundTo(a * b) \div Pow2(FracBits)

\* alpha = 0.3
alpha == FloatOf(3, 10)

\* alpha * observed + (1 - alpha) * prior, lines 151-152
Ema(observed, prior) ==
    FAdd(FMul(alpha, observed), FMul(FSub(FloatOf(1, 1), alpha), prior))

\* the metric has no value before the first measurement
NoEma == [measured |-> FALSE, updated |-> FALSE, value |-> 0, observed |-> 0, prior |-> 0]

EmaIdle == ema = NoEma

(***************************************************************************)
(* QuantumEnhancedP2PManager (network/p2p/quantum_enhanced_p2p.py).        *)
(***************************************************************************)
\* the peers the manager sends to
TargetNodes == {"target_peer"}

\* the circuit keys of the manager's sends (operation_type "send_message", line 147),
\* over every target a send is called with
SendKeys == {CircuitKey(p, "send_message") : p \in TargetNodes \cup {Unencodable}}

\* CircuitBreakerConfig(), fault_tolerance.py lines 19-22
DefaultConfig ==
    [failure_threshold |-> 5, timeout_seconds |-> 60, half_open_max_calls |-> 3,
     success_threshold |-> 2]

\* CSPFaultTolerance(node_id) as the manager makes it, over the keys of its sends
ManagerFault ==
    [failure_counts |-> [k \in SendKeys |-> 0],
     last_failure_times |-> <<>>,
     circuit_states |-> [k \in SendKeys |-> CLOSED],
     half_open_calls |-> [k \in SendKeys |-> 0],
     success_counts |-> [k \in SendKeys |-> 0],
     config |-> DefaultConfig]

\* self.server = None; a server is held as the port it listens on
NoServer == 0

\* __init__, lines 49-66
NewManager(node_id, bind_port) ==
    [node_id |-> node_id, bind_port |-> bind_port,
     quantum |-> NewProtocol(node_id), routing |-> NewRouting(node_id),
     fault |-> ManagerFault,
     connected_peers |-> <<>>, message_handlers |-> {},
     running |-> FALSE, server |-> NoServer,
     messages_sent |-> 0, messages_received |-> 0,
     encryption_successes |-> 0, encryption_failures |-> 0]

\* no listener bound, nothing written, no frame read; and, as observations, the
\* envelopes quantum_encrypt has returned to the manager and the envelopes written
\* to the peers' connections, each in the order it happened
NoNet ==
    [listening |-> {}, binds |-> 0, written |-> 0, read |-> 0, emitted |-> <<>>,
     wire |-> <<>>, written_at |-> <<>>]

\* what a step of the manager did: the call or coroutine it belongs to, what it
\* returned, whether the send it belongs to began on a running node, whether the
\* encryption of the step succeeded, the exception the step's attempt raised, and
\* what _discover_and_connect_peer returned in the step; for a step of
\* _handle_peer_connection, the peer address, the frame read, whether a registered
\* handler was invoked, what was logged and the message that was decrypted
NoMgrEvent ==
    [kind |-> "none", ret |-> NoneVal, begun_running |-> FALSE, encrypted |-> FALSE,
     raised |-> NoneVal, discovery |-> FALSE,
     peer |-> <<>>, frame |-> <<>>, handled |-> FALSE, log |-> NoneVal,
     message |-> <<>>]

\* The manager before any call.
MgrIdle ==
    /\ mgr = NewManager("test_node", 0)
    /\ net = NoNet
    /\ tasks = {}
    /\ sends = {}
    /\ conns = <<>>
    /\ mgr_event = NoMgrEvent

\* The encryption protocol before any call: one object per node.
CryptoIdle ==
    /\ protocol = [n \in NodeIds |-> NewProtocol(n)]
    /\ secrets_drawn = 0
    /\ envelopes = {}
    /\ accepted = [n \in NodeIds |-> {}]
    /\ origin = <<>>
    /\ last_decrypt = NoDecrypt

FTInit ==
    /\ CryptoIdle
    /\ RouterIdle
    /\ EmaIdle
    /\ MgrIdle
    /\ ft \in {NewFaultTolerance(cfg) : cfg \in CircuitBreakerConfig}
    /\ now = 0
    /\ calls = EmptyBag
    /\ invocations = 0
    /\ last_event = NoEvent
    /\ trip_run = [k \in CircuitKeys |-> 0]
    /\ consecutive_failures = [k \in CircuitKeys |-> 0]
    /\ half_open_successes = [k \in CircuitKeys |-> 0]
    /\ half_open_period = [k \in CircuitKeys |-> 0]
    /\ last_failure_at = [k \in CircuitKeys |-> 0]

\* A task calls execute_with_fault_tolerance: lines 48-66, up to the first await.
\* A refused call returns at once; an admitted one invokes the operation (attempt 0).
Begin(peer_id, operation_type, max_retries) ==
    LET circuit_key == CircuitKey(peer_id, operation_type)
        ce == _can_execute(ft, circuit_key)
        to == ce.self.circuit_states[circuit_key]
        entered == ft.circuit_states[circuit_key] = OPEN /\ to = HALF_OPEN
        period == IF entered THEN half_open_period[circuit_key] + 1
                  ELSE half_open_period[circuit_key]
        run == TripRunAtCall(circuit_key, max_retries)
        frame == NewCall(peer_id, circuit_key, max_retries, to,
                         IF to = HALF_OPEN THEN period ELSE 0)
    IN
    /\ BagCardinality(calls) < MaxInFlight
    /\ ce.ret => invocations < MaxInvocations
    /\ ft' = ce.self
    /\ half_open_period' = [half_open_period EXCEPT ![circuit_key] = period]
    /\ half_open_successes' =
           IF entered THEN [half_open_successes EXCEPT ![circuit_key] = 0]
           ELSE half_open_successes
    /\ IF ce.ret
       THEN /\ calls' = calls (+) SetToBag({frame})
            /\ invocations' = invocations + 1
            /\ last_event' = Did("admitted", frame)
            /\ trip_run' = [trip_run EXCEPT ![circuit_key] = run]
       ELSE /\ calls' = calls
            /\ invocations' = invocations
            /\ last_event' = Returned("refused", [frame EXCEPT !.invoked = 0],
                                      RefusedResult(ce.self, circuit_key),
                                      Max(0, Bump(run)))
            /\ trip_run' = [trip_run EXCEPT ![circuit_key] = Bump(run)]
    /\ UNCHANGED <<now, consecutive_failures, last_failure_at>>

\* The awaited operation returns a value: lines 68-76.
OperationSucceeds(c) ==
    /\ c.pc = "running"
    /\ ft' = _record_success(ft, c.circuit_key)
    /\ calls' = Remove(c)
    /\ last_event' = Returned("success", c, SuccessResult(c), 0)
    /\ trip_run' = [trip_run EXCEPT ![c.circuit_key] = -1]
    /\ consecutive_failures' = [consecutive_failures EXCEPT ![c.circuit_key] = 0]
    /\ half_open_successes' = [half_open_successes EXCEPT ![c.circuit_key] = @ + 1]
    /\ UNCHANGED <<now, invocations, half_open_period, last_failure_at>>

\* Lines 95-109, after an attempt failed with last_exception = reason: record the
\* failure, then either sleep for the backoff or leave the loop and return.
AttemptFailed(c0, reason, kind) ==
    LET c == [c0 EXCEPT !.last_exception = reason]
        after == _record_failure(ft, c.circuit_key)
        run == Bump(trip_run[c.circuit_key])
    IN
    /\ c0.pc = "running"
    /\ ft' = after
    /\ IF AnotherAttempt(c)
       THEN /\ calls' = Replace(c0, [c EXCEPT !.pc = "sleeping"])
            /\ last_event' = Did(kind, c)
            /\ trip_run' = trip_run
       ELSE /\ calls' = Remove(c0)
            /\ last_event' = Returned(kind, c, ExhaustedResult(after, c), Max(0, run))
            /\ trip_run' = [trip_run EXCEPT ![c.circuit_key] = run]
    /\ consecutive_failures' = [consecutive_failures EXCEPT ![c.circuit_key] = @ + 1]
    /\ half_open_successes' = [half_open_successes EXCEPT ![c.circuit_key] = 0]
    /\ last_failure_at' = [last_failure_at EXCEPT ![c.circuit_key] = now]
    /\ UNCHANGED <<now, invocations, half_open_period>>

\* The awaited operation raises an exception e: lines 91-93, with reason = str(e).
OperationRaises(c, reason) == AttemptFailed(c, reason, "error")

\* Variant of OperationTimesOut that leaves last_exception without a text.
OperationTimesOutUnnamed(c) == AttemptFailed(c, "", "timeout")

\* asyncio.wait_for gives up on the attempt: lines 78-80.
OperationTimesOut(c) == AttemptFailed(c, "timeout", "timeout")

\* Variant of OnCancelled that does not record the failure.
OnCancelledUnrecorded(self, c) == [self |-> self, result |-> CancelledResult(c)]

\* The CancelledError handler, lines 82-89: the object after it, and what it returns.
OnCancelled(self, c) ==
    [self |-> _record_failure(self, c.circuit_key), result |-> CancelledResult(c)]

\* The caller cancels the task while it awaits the operation.
CancelDuringAttempt(c) ==
    LET h == OnCancelled(ft, c) IN
    /\ c.pc = "running"
    /\ ft' = h.self
    /\ calls' = Remove(c)
    /\ last_event' = Returned("cancelled", c, h.result, 0)
    /\ trip_run' = [trip_run EXCEPT ![c.circuit_key] = -1]
    /\ consecutive_failures' = [consecutive_failures EXCEPT ![c.circuit_key] = @ + 1]
    /\ half_open_successes' = [half_open_successes EXCEPT ![c.circuit_key] = 0]
    /\ last_failure_at' = [last_failure_at EXCEPT ![c.circuit_key] = now]
    /\ UNCHANGED <<now, invocations, half_open_period>>

\* asyncio.sleep(backoff_delay) returns and the loop invokes the operation again:
\* line 101, then lines 60-66 of the next iteration.
BackoffElapses(c) ==
    LET next == [c EXCEPT !.pc = "running", !.attempt = @ + 1, !.invoked = @ + 1] IN
    /\ c.pc = "sleeping"
    /\ invocations < MaxInvocations
    /\ invocations' = invocations + 1
    /\ calls' = Replace(c, next)
    /\ last_event' = Did("retry", next)
    /\ UNCHANGED <<ft, now, trip_run, consecutive_failures, half_open_successes,
                   half_open_period, last_failure_at>>

\* The caller cancels the task while it sleeps between attempts: the CancelledError
\* is raised at line 101, outside the try, and leaves the function without a result.
CancelDuringBackoff(c) ==
    /\ c.pc = "sleeping"
    /\ calls' = Remove(c)
    /\ last_event' = Did("cancelled_in_backoff", c)
    /\ trip_run' = [trip_run EXCEPT ![c.circuit_key] = -1]
    /\ UNCHANGED <<ft, now, invocations, consecutive_failures, half_open_successes,
                   half_open_period, last_failure_at>>

\* One second passes.
Tick ==
    /\ now < MaxTime
    /\ now' = now + 1
    /\ last_event' = NoEvent
    /\ UNCHANGED <<ft, calls, invocations, trip_run, consecutive_failures,
                   half_open_successes, half_open_period, last_failure_at>>

FTNext ==
    \/ \E p \in Peers, o \in OpTypes, m \in 0..MaxRetries : Begin(p, o, m) /\ UNCHANGED <<cryptoVars, routeVars, emaVars, mgrVars>>
    \/ \E c \in Frames : OperationSucceeds(c) /\ UNCHANGED <<cryptoVars, routeVars, emaVars, mgrVars>>
    \/ \E c \in Frames, e \in AppErrors : OperationRaises(c, e) /\ UNCHANGED <<cryptoVars, routeVars, emaVars, mgrVars>>
    \/ \E c \in Frames : OperationTimesOut(c) /\ UNCHANGED <<cryptoVars, routeVars, emaVars, mgrVars>>
    \/ \E c \in Frames : CancelDuringAttempt(c) /\ UNCHANGED <<cryptoVars, routeVars, emaVars, mgrVars>>
    \/ \E c \in Frames : BackoffElapses(c) /\ UNCHANGED <<cryptoVars, routeVars, emaVars, mgrVars>>
    \/ \E c \in Frames : CancelDuringBackoff(c) /\ UNCHANGED <<cryptoVars, routeVars, emaVars, mgrVars>>
    \/ Tick /\ UNCHANGED <<cryptoVars, routeVars, emaVars, mgrVars>>

SpecFT == FTInit /\ [][FTNext]_vars

\* Recovery. Callers keep calling execute_with_fault_tolerance with max_retries = 0
\* on the keys; the wrapped operation fails during the first second only and
\* returns a value ever after; the observation counters of the calls stay as they
\* are, so that the calls can go on for ever.
\* A call: lines 48-66, up to the first await.
RecoveryCall(peer_id, operation_type) ==
    LET circuit_key == CircuitKey(peer_id, operation_type)
        ce == _can_execute(ft, circuit_key)
        frame == NewCall(peer_id, circuit_key, 0, ce.self.circuit_states[circuit_key], 0)
    IN
    /\ BagCardinality(calls) < MaxInFlight
    /\ ft' = ce.self
    /\ calls' = IF ce.ret THEN calls (+) SetToBag({frame}) ELSE calls
    /\ last_event' = Did(IF ce.ret THEN "admitted" ELSE "refused", frame)
    /\ UNCHANGED <<now, invocations, trip_run, consecutive_failures,
                   half_open_successes, half_open_period, last_failure_at>>

\* the awaited operation returns a value: lines 68-76
RecoverySucceeds(c) ==
    /\ c.pc = "running"
    /\ ft' = _record_success(ft, c.circuit_key)
    /\ calls' = Remove(c)
    /\ last_event' = Did("success", c)
    /\ UNCHANGED <<now, invocations, trip_run, consecutive_failures,
                   half_open_successes, half_open_period, last_failure_at>>

\* the awaited operation raises, in the first second: lines 91-109 with no attempt left
EarlyFailure(c) ==
    /\ now = 0
    /\ c.pc = "running"
    /\ ft' = _record_failure(ft, c.circuit_key)
    /\ calls' = Remove(c)
    /\ last_event' = Did("error", c)
    /\ UNCHANGED <<now, invocations, trip_run, consecutive_failures,
                   half_open_successes, half_open_period, last_failure_at>>

RecoveryCalls == \E p \in Peers, o \in OpTypes : RecoveryCall(p, o)

RecoveryReturns == \E c \in Frames : RecoverySucceeds(c)

RecoveryNext ==
    \/ RecoveryCalls /\ UNCHANGED <<cryptoVars, routeVars, emaVars, mgrVars>>
    \/ RecoveryReturns /\ UNCHANGED <<cryptoVars, routeVars, emaVars, mgrVars>>
    \/ \E c \in Frames : EarlyFailure(c) /\ UNCHANGED <<cryptoVars, routeVars, emaVars, mgrVars>>
    \/ Tick /\ UNCHANGED <<cryptoVars, routeVars, emaVars, mgrVars>>

\* Callers keep calling, a call that was made returns, and time goes on.
SpecRecovery ==
    /\ FTInit
    /\ [][RecoveryNext]_vars
    /\ WF_vars(RecoveryCalls /\ UNCHANGED <<cryptoVars, routeVars, emaVars, mgrVars>>)
    /\ WF_vars(RecoveryReturns /\ UNCHANGED <<cryptoVars, routeVars, emaVars, mgrVars>>)
    /\ WF_vars(Tick /\ UNCHANGED <<cryptoVars, routeVars, emaVars, mgrVars>>)

(***************************************************************************)
(* The encryption protocol as a state machine.                             *)
(***************************************************************************)
\* The fault executor at rest, for the specification of the encryption protocol.
FTIdle ==
    /\ ft = NewFaultTolerance(CHOOSE cfg \in CircuitBreakerConfig :
                                 /\ cfg.failure_threshold = MaxFailureThreshold
                                 /\ cfg.success_threshold = MaxSuccessThreshold)
    /\ calls = EmptyBag
    /\ invocations = 0
    /\ last_event = NoEvent
    /\ trip_run = [k \in CircuitKeys |-> 0]
    /\ consecutive_failures = [k \in CircuitKeys |-> 0]
    /\ half_open_successes = [k \in CircuitKeys |-> 0]
    /\ half_open_period = [k \in CircuitKeys |-> 0]
    /\ last_failure_at = [k \in CircuitKeys |-> 0]

CryptoInit ==
    /\ FTIdle
    /\ RouterIdle
    /\ EmaIdle
    /\ MgrIdle
    /\ now = 0
    /\ CryptoIdle

\* the secret of the key record an envelope was produced under (it is inside the
\* HMAC key the envelope's MAC was computed with)
EnvelopeSecret(e) == FromHex(e.hmac)[2][4]

\* the number of encrypt calls that failed under the key record a node now holds
\* for key_id: the counter's value less the envelopes emitted under the record
FailedUnder(objects, emitted, node, key_id) ==
    LET key == objects[node].key_store[key_id]
    IN  key.sequence_number
          - Cardinality({x \in emitted : /\ x.key_id = key_id
                                         /\ EnvelopeSecret(x) = key.symmetric_key})

\* the (node, key id) pairs of the key records a node created for its own peers
OwnKeys(objects) ==
    {nk \in NodeIds \X {a \o ":" \o b : a \in NodeIds, b \in NodeIds} :
        /\ nk[2] \in DOMAIN objects[nk[1]].key_store
        /\ nk[2] = nk[1] \o ":" \o objects[nk[1]].key_store[nk[2]].peer_id}

\* A node encrypts data for target_node; the envelope of a successful call goes out.
Encrypt(node, target_node, data, nonce) ==
    LET e == quantum_encrypt(protocol[node], data, target_node, nonce,
                             <<"secret", secrets_drawn + 1>>)
    IN  /\ node # target_node
        /\ Cardinality(envelopes) < MaxEnvelopes
        /\ ~e.ret.encrypted =>
               LET objects == [protocol EXCEPT ![node] = e.self]
                   failing == {nk \in OwnKeys(objects) :
                                  FailedUnder(objects, envelopes, nk[1], nk[2]) > 0}
               IN  /\ Cardinality(failing) <= 1
                   /\ \A nk \in failing :
                          FailedUnder(objects, envelopes, nk[1], nk[2])
                              <= MaxFailedEncrypts
        /\ e.created => secrets_drawn < MaxSecrets
        /\ protocol' = [protocol EXCEPT ![node] = e.self]
        /\ secrets_drawn' = IF e.created THEN secrets_drawn + 1 ELSE secrets_drawn
        /\ envelopes' = IF e.ret.encrypted THEN envelopes \cup {e.ret} ELSE envelopes
        /\ last_decrypt' = NoDecrypt
        /\ origin' = IF e.ret.encrypted
                      THEN DictSet(origin, e.ret,
                                   [node |-> node, target_node |-> target_node,
                                    data |-> data,
                                    symmetric_key |->
                                        e.self.key_store[e.ret.key_id].symmetric_key])
                      ELSE origin
        /\ UNCHANGED <<now, accepted>>
        /\ UNCHANGED <<ftVars, routeVars, emaVars, mgrVars>>

\* quantum_decrypt is called on a node; `tampered` says how encrypted_data differs
\* from the envelope on the wire it was made from.
Handed(node, encrypted_data, sender_node, tampered) ==
    LET d == quantum_decrypt(protocol[node], encrypted_data, sender_node)
    IN  /\ protocol' = [protocol EXCEPT ![node] = d.self]
        /\ accepted' = IF d.ret # NoneVal /\ tampered = "no"
                       THEN [accepted EXCEPT ![node] = @ \cup {<<encrypted_data, sender_node>>}]
                       ELSE accepted
        /\ last_decrypt' =
              [called |-> TRUE,
               seen |-> <<encrypted_data, sender_node>> \in accepted[node],
               stale |-> /\ "sequence" \in DOMAIN encrypted_data
                         /\ encrypted_data.sequence <
                              DictGet(protocol[node].sequence_numbers, sender_node, 0),
               tampered |-> tampered,
               sequence |-> IF d.ret # NoneVal THEN encrypted_data.sequence ELSE 0,
               ret |-> d.ret]
        /\ UNCHANGED <<now, secrets_drawn, envelopes, origin>>
        /\ UNCHANGED <<ftVars, routeVars, emaVars, mgrVars>>

\* A node is handed an envelope that is on the wire, with the sender it is said to be from.
Decrypt(node, encrypted_data, sender_node) ==
    Handed(node, encrypted_data, sender_node, "no")

\* the envelope fields that carry a byte string as hexadecimal digits
HexFields == {"nonce", "ciphertext", "tag", "hmac"}

\* other bytes than b, of the same length, for field f (a nonce is an atom of the
\* model, the other byte strings are tuples headed by what computed them)
Flipped(f, b) == IF f = "nonce" THEN b \o "^" ELSE [b EXCEPT ![1] = @ \o "^"]

\* The envelopes that differ from envelope e in one of the fields nonce, ciphertext,
\* tag, hmac and sequence. kind "encoding": the same bytes written with upper-case
\* digits; kind "value": other bytes (a bit flipped, or the field of another
\* envelope on the wire) or another sequence number. And, kind "malformed", the
\* envelopes that lack a field of e.
TamperedEnvelopes(e) ==
    {[env |-> [e EXCEPT ![f] = [@ EXCEPT !.upper = TRUE]], kind |-> "encoding"] :
        f \in HexFields}
    \cup {[env |-> [e EXCEPT ![f] = Hex(Flipped(f, FromHex(@)))], kind |-> "value"] :
        f \in HexFields}
    \cup {[env |-> [e EXCEPT ![fx[1]] = fx[2][fx[1]]], kind |-> "value"] :
        fx \in {gy \in HexFields \X envelopes : FromHex(gy[2][gy[1]]) # FromHex(e[gy[1]])}}
    \cup {[env |-> [e EXCEPT !.sequence = q], kind |-> "value"] :
        q \in {e.sequence - 1, e.sequence + 1}}
    \cup {[env |-> [g \in DOMAIN e \ {f} |-> e[g]], kind |-> "malformed"] :
        f \in {"key_id", "hmac"}}

\* A node is handed an envelope that was altered on the wire in one field.
DecryptTampered(node, t, sender_node) ==
    /\ t.env \notin envelopes
    /\ Handed(node, t.env, sender_node, t.kind)

\* The session key a node holds for a peer is put into the peer's key store
\* (the key exchange; the node creates the key if it has none that is current).
ShareKey(node, peer_id) ==
    LET g == _get_or_create_key(protocol[node], peer_id, <<"secret", secrets_drawn + 1>>)
        alice_key == g.self.key_store[g.key_id]
    IN  /\ node # peer_id
        /\ g.created => secrets_drawn < MaxSecrets
        /\ protocol' = [protocol EXCEPT
                           ![node] = g.self,
                           ![peer_id].key_store = DictSet(@, alice_key.key_id, alice_key)]
        /\ protocol' # protocol
        /\ secrets_drawn' = IF g.created THEN secrets_drawn + 1 ELSE secrets_drawn
        /\ last_decrypt' = NoDecrypt
        /\ UNCHANGED <<now, envelopes, accepted, origin>>
        /\ UNCHANGED <<ftVars, routeVars, emaVars, mgrVars>>

\* Time passes.
ClockAdvances ==
    /\ now + ClockStep <= MaxClock
    /\ now' = now + ClockStep
    /\ last_decrypt' = NoDecrypt
    /\ UNCHANGED <<protocol, secrets_drawn, envelopes, accepted, origin>>
    /\ UNCHANGED <<ftVars, routeVars, emaVars, mgrVars>>

CryptoNext ==
    \/ \E n \in NodeIds, t \in NodeIds, d \in Plaintexts, nc \in Nonces :
          Encrypt(n, t, d, nc)
    \/ \E n \in NodeIds, e \in envelopes, s \in NodeIds : Decrypt(n, e, s)
    \/ \E n \in NodeIds, p \in NodeIds : ShareKey(n, p)
    \/ ClockAdvances

SpecCrypto == CryptoInit /\ [][CryptoNext]_vars

\* The traffic from alice to bob with an adversary on the wire, who hands to either
\* node, under either sender's name, the envelopes as emitted, and to bob, under
\* alice's name, altered ones.
TamperNext ==
    \/ \E d \in Plaintexts, nc \in Nonces : Encrypt("alice", "bob", d, nc)
    \/ ShareKey("alice", "bob")
    \/ \E n \in NodeIds, e \in envelopes, s \in NodeIds : Decrypt(n, e, s)
    \/ \E e \in envelopes :
          \E t \in TamperedEnvelopes(e) : DecryptTampered("bob", t, "alice")
    \/ ClockAdvances

SpecTamper == CryptoInit /\ [][TamperNext]_vars

\* The outbound side alone: encrypt calls, among them calls whose data is not a bytes
\* object and which fail, key exchange and the clock.
OutboundNext ==
    \/ \E n \in NodeIds, t \in NodeIds, d \in Plaintexts \cup {NotBytes}, nc \in Nonces :
          Encrypt(n, t, d, nc)
    \/ \E n \in NodeIds, p \in NodeIds : ShareKey(n, p)
    \/ ClockAdvances

SpecOutbound == CryptoInit /\ [][OutboundNext]_vars

(***************************************************************************)
(* Properties of the fault executor, checked under SpecFT.                 *)
(***************************************************************************)
FailureKinds == {"error", "timeout", "cancelled"}

\* the last step ended a call
CallReturned == last_event.returned

\* the breaker's timeout window for circuit_key is still running
InWindow(circuit_key) == now - last_failure_at[circuit_key] <= ft.config.timeout_seconds

\* the probes of circuit_key's current HALF_OPEN period that are in flight
ProbesInFlight(circuit_key) ==
    LET P == {c \in Frames : /\ c.circuit_key = circuit_key
                             /\ c.began_in = HALF_OPEN
                             /\ c.period = half_open_period[circuit_key]}
    IN BagCardinality([c \in P |-> calls[c]])

\* C2: A circuit that is CLOSED has seen fewer than failure_threshold consecutive
\* failures; a failure recorded on a CLOSED circuit opens it exactly when it is the
\* failure_threshold-th consecutive one; and in a run of calls made one after the
\* other with max_retries = 0 on a failing operation, each of the first
\* failure_threshold calls returns the operation's failure after one attempt and the
\* call after them returns circuit_breaker_open.
C2_CircuitOpensAtThreshold ==
    \A k \in CircuitKeys :
        /\ ft.circuit_states[k] = CLOSED
               => consecutive_failures[k] < ft.config.failure_threshold
        /\ (last_event.key = k /\ last_event.kind \in FailureKinds
                /\ last_event.from = CLOSED)
               => IF consecutive_failures[k] = ft.config.failure_threshold
                  THEN ft.circuit_states[k] = OPEN
                  ELSE ft.circuit_states[k] = CLOSED
        /\ (last_event.key = k /\ last_event.nth >= 1)
               => IF last_event.nth <= ft.config.failure_threshold
                  THEN /\ last_event.kind \in {"error", "timeout"}
                       /\ last_event.result.success = FALSE
                       /\ last_event.result.attempts = 1
                       /\ last_event.result.error # "circuit_breaker_open"
                  ELSE /\ last_event.kind = "refused"
                       /\ last_event.result.error = "circuit_breaker_open"

\* The call after failure_threshold = 2 failing single-attempt calls was just refused.
C2_Witness ==
    /\ ft.config.failure_threshold = 2
    /\ last_event.kind = "refused"
    /\ last_event.nth = 3
    /\ ft.circuit_states[last_event.key] = OPEN
    /\ consecutive_failures[last_event.key] = 2

\* C3: The wrapped operation is never invoked (at the start of a call or at a retry)
\* for a key whose circuit is OPEN with its timeout window still running.
C3_NoInvocationWhileOpen ==
    last_event.kind \in {"admitted", "retry"}
        => ~(ft.circuit_states[last_event.key] = OPEN /\ InWindow(last_event.key))

\* C4: While a circuit is HALF_OPEN, at most half_open_max_calls probes of that key
\* are in flight.
C4_HalfOpenProbeLimit ==
    \A k \in CircuitKeys :
        ft.circuit_states[k] = HALF_OPEN
            => ProbesInFlight(k) <= ft.config.half_open_max_calls

\* C5: A step takes a circuit from OPEN to HALF_OPEN only when at least
\* timeout_seconds have passed since the last failure recorded for the key, and it
\* leaves the half-open in-flight counter and the success counter at zero.
C5_HalfOpenOnlyAfterTimeout ==
    \A k \in CircuitKeys :
        (last_event.key = k /\ last_event.from = OPEN
             /\ ft.circuit_states[k] = HALF_OPEN)
            => /\ now - last_failure_at[k] >= ft.config.timeout_seconds
               /\ ft.half_open_calls[k] = 0
               /\ ft.success_counts[k] = 0

\* A call was just admitted on a circuit that was OPEN, which is now HALF_OPEN.
C5_Witness ==
    /\ last_event.kind = "admitted"
    /\ last_event.from = OPEN
    /\ ft.circuit_states[last_event.key] = HALF_OPEN
    /\ now - last_failure_at[last_event.key] > ft.config.timeout_seconds

\* C6: A failure recorded for a key whose circuit is HALF_OPEN leaves it OPEN.
C6_HalfOpenFailureReopens ==
    (last_event.kind \in FailureKinds /\ last_event.from = HALF_OPEN)
        => ft.circuit_states[last_event.key] = OPEN

\* A probe of a HALF_OPEN circuit just failed.
C6_Witness ==
    /\ last_event.kind \in {"error", "timeout"}
    /\ last_event.from = HALF_OPEN
    /\ ft.circuit_states[last_event.key] = OPEN

\* C7: A HALF_OPEN circuit has seen fewer than success_threshold successes since it
\* became HALF_OPEN; the step that takes it to CLOSED is the recording of the
\* success_threshold-th of them, and it leaves the failure counter at 0.
C7_HalfOpenClosesAtThreshold ==
    \A k \in CircuitKeys :
        /\ ft.circuit_states[k] = HALF_OPEN
               => half_open_successes[k] < ft.config.success_threshold
        /\ (last_event.key = k /\ last_event.from = HALF_OPEN
                /\ ft.circuit_states[k] = CLOSED)
               => /\ last_event.kind = "success"
                  /\ half_open_successes[k] = ft.config.success_threshold
                  /\ ft.failure_counts[k] = 0

\* The second success of a HALF_OPEN period just closed the circuit.
C7_Witness ==
    /\ ft.config.success_threshold = 2
    /\ last_event.kind = "success"
    /\ last_event.from = HALF_OPEN
    /\ ft.circuit_states[last_event.key] = CLOSED

\* The retry bound of C8 without its last clause: at most max_retries + 1
\* invocations; success at attempt k returns attempts = k; exhaustion returns
\* attempts = max_retries + 1.
RetryBound ==
    /\ \A c \in Frames :
           /\ c.invoked = c.attempt + 1
           /\ c.invoked <= c.max_retries + 1
           /\ c.pc = "sleeping" => c.invoked < c.max_retries + 1
    /\ (last_event.kind = "success")
           => /\ last_event.result.success = TRUE
              /\ last_event.result.attempts = last_event.invoked
              /\ last_event.invoked <= last_event.max_retries + 1
    /\ (last_event.kind \in {"error", "timeout"} /\ CallReturned)
           => /\ last_event.result.success = FALSE
              /\ last_event.invoked = last_event.max_retries + 1
              /\ last_event.result.attempts = last_event.max_retries + 1

\* C8 as stated: the retry bound, and a call whose attempts all failed returns the
\* last error as its error.
C8_AsStated ==
    /\ RetryBound
    /\ (last_event.kind \in {"error", "timeout"} /\ CallReturned)
           => last_event.result.error = last_event.reason

\* C9: A call admitted on a CLOSED circuit that returns success after failed
\* attempts leaves the circuit CLOSED with a failure counter of 0.
C9_SuccessAfterRetriesLeavesClosed ==
    (last_event.kind = "success" /\ last_event.began_in = CLOSED
         /\ last_event.invoked > 1)
        => /\ ft.circuit_states[last_event.key] = CLOSED
           /\ ft.failure_counts[last_event.key] = 0

\* C10: The step in which a call is cancelled during an attempt adds exactly one to
\* the key's failure counter, ends the call without another invocation of the
\* operation, and returns error "cancelled".
C10_CancelRecordsOneFailure ==
    [][last_event'.kind = "cancelled"
           => /\ ft'.failure_counts[last_event'.key]
                      = ft.failure_counts[last_event'.key] + 1
              /\ last_event'.result.success = FALSE
              /\ last_event'.result.error = "cancelled"
              /\ last_event'.result.attempts = last_event'.invoked
              /\ invocations' = invocations
              /\ BagCardinality(calls') = BagCardinality(calls) - 1]_vars

\* A call was just cancelled during its second attempt.
C10_Witness ==
    /\ last_event.kind = "cancelled"
    /\ last_event.invoked = 2
    /\ last_event.result.error = "cancelled"

\* C11: An attempt that times out counts as one failed attempt. The step adds
\* exactly one to the key's failure counter and opens a CLOSED circuit whose counter
\* reaches failure_threshold; when attempts remain the call does not return and
\* waits out its backoff before the next attempt (which only the caller's
\* cancellation prevents); when it was the last attempt the call returns a failure
\* with error "timeout".
C11_TimeoutIsOneFailure ==
    [][/\ last_event'.kind = "timeout" =>
            LET k == last_event'.key IN
            /\ ft'.failure_counts[k] = ft.failure_counts[k] + 1
            /\ (ft.circuit_states[k] = CLOSED
                    /\ ft'.failure_counts[k] >= ft.config.failure_threshold)
                  => ft'.circuit_states[k] = OPEN
            /\ \A c \in BagToSet(calls) :
                  CopiesIn(c, calls') < CopiesIn(c, calls) =>
                      IF c.attempt < c.max_retries
                      THEN /\ ~last_event'.returned
                           /\ [c EXCEPT !.pc = "sleeping", !.last_exception = "timeout"]
                                  \in BagToSet(calls')
                      ELSE /\ last_event'.returned
                           /\ last_event'.result.success = FALSE
                           /\ last_event'.result.error = "timeout"
                           /\ last_event'.result.attempts = c.max_retries + 1
       /\ \A c \in BagToSet(calls) :
             (c.pc = "sleeping" /\ CopiesIn(c, calls') < CopiesIn(c, calls))
                => \/ /\ last_event'.kind = "retry"
                      /\ [c EXCEPT !.pc = "running", !.attempt = @ + 1,
                                   !.invoked = @ + 1] \in BagToSet(calls')
                   \/ last_event'.kind = "cancelled_in_backoff"
      ]_vars

\* A call with max_retries = 1 just returned "timeout" after both attempts timed
\* out, and the second timeout opened the circuit.
C11_Witness ==
    /\ last_event.kind = "timeout"
    /\ CallReturned
    /\ last_event.invoked = 2
    /\ last_event.result.error = "timeout"
    /\ last_event.from = CLOSED
    /\ ft.circuit_states[last_event.key] = OPEN
    /\ ft.failure_counts[last_event.key] = 2

(***************************************************************************)
(* Properties of the encryption protocol, checked under SpecCrypto.        *)
(***************************************************************************)

\* C1: replay rejection. Once quantum_decrypt on a receiver has accepted an
\* envelope from sender S, every later quantum_decrypt of that same envelope
\* with sender S on that receiver returns None, whatever encrypts, decrypts,
\* key exchanges and key rotations happened in between.
C1_ReplayRejected ==
    (last_decrypt.called /\ last_decrypt.seen) => last_decrypt.ret = NoneVal

\* An accepted envelope is presented again after a later one was accepted.
C1_Witness ==
    /\ last_decrypt.called
    /\ last_decrypt.seen
    /\ last_decrypt.stale
    /\ last_decrypt.ret = NoneVal
    /\ \E n \in NodeIds : Cardinality(accepted[n]) >= 2

\* C12 as stated: the k-th envelope a node emits for a peer carries sequence k, over
\* the node's whole lifetime, also after the session key's TTL has expired.
C12_AsStated ==
    [][\A e \in envelopes' \ envelopes :
          e.sequence = Cardinality({x \in envelopes' : x.key_id = e.key_id})]_vars

\* C12: Sequence monotonicity per key record. An encrypt that finds a stored record
\* no older than the TTL emits that record's counter plus one under the same secret,
\* and an encrypt that finds no record, or one older than the TTL, emits sequence 1
\* under a new record; so the sequences emitted under one key record are strictly
\* increasing in emission order, the k-th of them is at least k, and the only step
\* that moves a record's counter without emitting an envelope is a failed encrypt
\* call, which moves it by one.
C12_SequencePerKeyRecord ==
    [][/\ \A e \in envelopes' \ envelopes : \A n \in NodeIds :
             protocol'[n] # protocol[n] =>
                 LET key == protocol'[n].key_store[e.key_id]
                     had == e.key_id \in DOMAIN protocol[n].key_store
                     under == {x \in envelopes :
                                  /\ x.key_id = e.key_id
                                  /\ EnvelopeSecret(x) = key.symmetric_key}
                 IN  /\ e.sequence = key.sequence_number
                     /\ EnvelopeSecret(e) = key.symmetric_key
                     /\ IF had /\ now - protocol[n].key_store[e.key_id].created_at
                                      <= ttl_seconds
                        THEN /\ key.symmetric_key =
                                   protocol[n].key_store[e.key_id].symmetric_key
                             /\ e.sequence =
                                   protocol[n].key_store[e.key_id].sequence_number + 1
                        ELSE /\ e.sequence = 1
                             /\ key.created_at = now
                     /\ \A x \in under : x.sequence < e.sequence
                     /\ e.sequence >= Cardinality(under) + 1
       /\ envelopes' = envelopes =>
             \A nk \in OwnKeys(protocol) :
                 LET old == protocol[nk[1]].key_store[nk[2]]
                     new == protocol'[nk[1]].key_store[nk[2]]
                 IN  new.symmetric_key = old.symmetric_key
                        => new.sequence_number \in
                              {old.sequence_number, old.sequence_number + 1}
      ]_vars

\* Two envelopes were emitted for one peer under one key record, with sequences 1 and 2.
C12_Witness ==
    \E e1 \in envelopes, e2 \in envelopes :
        /\ e1.key_id = e2.key_id
        /\ EnvelopeSecret(e1) = EnvelopeSecret(e2)
        /\ e1.sequence = 1
        /\ e2.sequence = 2

\* C13: Round trip. Whenever the key record node A encrypted an envelope under for
\* node B is installed in B's key store and the envelope's sequence is above B's
\* watermark for A, quantum_decrypt on B of that envelope with sender A returns
\* exactly the plaintext A encrypted and takes the watermark to its sequence.
C13_RoundTrip ==
    \A n \in NodeIds, e \in envelopes :
        LET o == origin[e]
            d == quantum_decrypt(protocol[n], e, o.node)
        IN  (/\ o.target_node = n
             /\ e.key_id \in DOMAIN protocol[n].key_store
             /\ protocol[n].key_store[e.key_id].symmetric_key = o.symmetric_key
             /\ e.sequence > DictGet(protocol[n].sequence_numbers, o.node, 0))
            => /\ d.ret = o.data
               /\ d.self.sequence_numbers[o.node] = e.sequence

\* Bob has just decrypted two envelopes of Alice, with different plaintexts, each to
\* the plaintext Alice encrypted.
C13_Witness ==
    /\ last_decrypt.called
    /\ last_decrypt.ret # NoneVal
    /\ \E e1 \in envelopes, e2 \in envelopes :
          /\ origin[e1].data # origin[e2].data
          /\ {<<e1, "alice">>, <<e2, "alice">>} \subseteq accepted["bob"]
          /\ origin[e1].node = "alice" /\ origin[e2].node = "alice"
          /\ last_decrypt.ret \in {origin[e1].data, origin[e2].data}

Watermarks(objects) == [n \in NodeIds |-> objects[n].sequence_numbers]

\* C15: A quantum_decrypt call that returns None (unknown key id, replayed
\* sequence, HMAC mismatch, AEAD failure, malformed envelope) leaves every
\* watermark of every node as it was; a call that returns plaintext sets one
\* watermark of the called node, to the sequence of the envelope it decrypted, and
\* leaves the others; and no other step changes a watermark.
C15_WatermarkOnlyOnSuccess ==
    [][IF last_decrypt'.called /\ last_decrypt'.ret # NoneVal
       THEN \E n \in NodeIds, s \in NodeIds :
               Watermarks(protocol') =
                   [Watermarks(protocol) EXCEPT
                       ![n] = DictSet(@, s, last_decrypt'.sequence)]
       ELSE Watermarks(protocol') = Watermarks(protocol)
      ]_vars

\* Bob, whose watermark for Alice is above 0, has just rejected an envelope that is
\* not a replay (its sequence is not below the watermark) and not an envelope as
\* emitted.
C15_Witness ==
    /\ last_decrypt.called
    /\ last_decrypt.ret = NoneVal
    /\ last_decrypt.tampered = "value"
    /\ ~last_decrypt.stale
    /\ DictGet(protocol["bob"].sequence_numbers, "alice", 0) > 0

\* the highest sequence among the envelopes node n accepted from sender s (0: none)
HighestAccepted(n, s) ==
    LET seqs == {p[1].sequence : p \in {q \in accepted[n] : q[2] = s}}
    IN  IF seqs = {} THEN 0 ELSE CHOOSE m \in seqs : \A k \in seqs : k <= m

\* C16: For every receiver and sender, no step lowers the inbound watermark and the
\* watermark is the highest sequence accepted from that sender; and an envelope
\* whose key record the receiver holds and whose sequence is above the watermark
\* is accepted, whatever sequence numbers it skips, the watermark going to its
\* sequence.
C16_WatermarkMonotone ==
    [][/\ \A n \in NodeIds, s \in NodeIds :
             /\ DictGet(protocol'[n].sequence_numbers, s, 0)
                    >= DictGet(protocol[n].sequence_numbers, s, 0)
             /\ DictGet(protocol'[n].sequence_numbers, s, 0) = HighestAccepted(n, s)'
       /\ \A e \in envelopes :
             LET n == origin[e].target_node
                 s == origin[e].node
                 d == quantum_decrypt(protocol[n], e, s)
             IN  (/\ e.key_id \in DOMAIN protocol[n].key_store
                  /\ protocol[n].key_store[e.key_id].symmetric_key
                         = origin[e].symmetric_key
                  /\ e.sequence > DictGet(protocol[n].sequence_numbers, s, 0))
                 => /\ d.ret # NoneVal
                    /\ d.self.sequence_numbers[s] = e.sequence
      ]_vars

\* Bob has just accepted Alice's envelope with sequence 2 without ever having
\* accepted one with sequence 1: his watermark went from 0 to 2.
C16_Witness ==
    /\ last_decrypt.called
    /\ last_decrypt.ret # NoneVal
    /\ last_decrypt.sequence = 2
    /\ Cardinality(accepted["bob"]) = 1
    /\ DictGet(protocol["bob"].sequence_numbers, "alice", 0) = 2

\* C17: Any two quantum_decrypt calls that fail for different reasons (unknown key
\* id, replayed sequence, HMAC mismatch, AEAD failure: the reason is what the call
\* logs) return different values to their callers.
C17_FailureKindsDistinct ==
    \A n1 \in NodeIds, n2 \in NodeIds, s1 \in NodeIds, s2 \in NodeIds :
        \A e1 \in envelopes, e2 \in envelopes :
            LET d1 == quantum_decrypt(protocol[n1], e1, s1)
                d2 == quantum_decrypt(protocol[n2], e2, s2)
            IN  (d1.log # NoneVal /\ d2.log # NoneVal /\ d1.log # d2.log)
                    => d1.ret # d2.ret

(***************************************************************************)
(* The router: measurements arrive, routes are asked for, time passes.     *)
(***************************************************************************)
RouteInit ==
    /\ FTIdle
    /\ CryptoIdle
    /\ RouterIdle
    /\ EmaIdle
    /\ MgrIdle
    /\ now = 0

\* the measurements recorded so far, over all peers
Recorded ==
    LET RECURSIVE Count(_)
        Count(P) == IF P = {} THEN 0
                    ELSE LET p == CHOOSE x \in P : TRUE
                         IN  Len(router.route_history[p]) + Count(P \ {p})
    IN  Count(DOMAIN router.route_history)

\* the candidate lists handed to find_optimal_route
CandidateLists == UNION {[1..n -> RoutePeers] : n \in 0..MaxCandidates}

RecordRoutePerformance(peer_id, m) ==
    /\ Recorded < MaxRecords
    /\ router' = record_route_performance(router, peer_id, m[1], m[2], m[3])
    /\ last_route' = NoRoute
    /\ UNCHANGED <<now, ftVars, cryptoVars, emaVars, mgrVars>>

FindOptimalRoute(target, peers) ==
    /\ last_route' = [called |-> TRUE, target |-> target, peers |-> peers,
                      info |-> find_optimal_route(router, target, "test", peers)]
    /\ UNCHANGED <<now, router, ftVars, cryptoVars, emaVars, mgrVars>>

RouteTick ==
    /\ now < AgeUnit * MaxRouteTicks
    /\ now' = now + AgeUnit
    /\ last_route' = NoRoute
    /\ UNCHANGED <<router, ftVars, cryptoVars, emaVars, mgrVars>>

RouteNext ==
    \/ \E p \in RoutePeers, m \in Measurements : RecordRoutePerformance(p, m)
    \/ \E t \in Targets, ps \in CandidateLists : FindOptimalRoute(t, ps)
    \/ RouteTick

SpecRouting == RouteInit /\ [][RouteNext]_vars

\* C18: find_optimal_route returns the empty route with confidence 0 exactly when
\* the candidate list is empty, and a non-empty route for every non-empty list.
C18_EmptyRouteIffNoPeers ==
    last_route.called =>
        /\ (last_route.info.route = <<>> /\ last_route.info.confidence = 0)
              <=> (last_route.peers = <<>>)
        /\ last_route.peers # <<>> => last_route.info.route # <<>>

\* both sides of C18 in one state cannot be: the empty list was asked after
\* measurements had been recorded
C18_Witness ==
    /\ last_route.called
    /\ last_route.peers = <<>>
    /\ last_route.info.route = <<>>
    /\ last_route.info.confidence = 0
    /\ DOMAIN router.peer_metrics # {}

\* C19: whenever the target is one of the candidates the direct route
\* [self, target] is returned, whatever the metrics table holds.
C19_DirectWhenCandidate ==
    (last_route.called /\ InPeers(last_route.target, last_route.peers)) =>
        last_route.info.route = <<router.node_id, last_route.target>>


\* the call asked for a target that is not a candidate, among some candidates
ViaCandidate ==
    /\ last_route.called
    /\ last_route.peers # <<>>
    /\ ~InPeers(last_route.target, last_route.peers)

\* both measured at the same time with equal success, p with the lower latency
\* and the higher bandwidth
Dominates(p, q) ==
    /\ p \in DOMAIN router.peer_metrics
    /\ q \in DOMAIN router.peer_metrics
    /\ router.peer_metrics[p].last_updated = router.peer_metrics[q].last_updated
    /\ router.peer_metrics[p].success_rate = router.peer_metrics[q].success_rate
    /\ router.peer_metrics[p].latency_ms < router.peer_metrics[q].latency_ms
    /\ router.peer_metrics[p].bandwidth_mbps > router.peer_metrics[q].bandwidth_mbps

\* the returned route is [self, best, target] for a candidate of maximal score
ViaMaximal ==
    /\ Len(last_route.info.route) = 3
    /\ last_route.info.route[1] = router.node_id
    /\ last_route.info.route[3] = last_route.target
    /\ InPeers(last_route.info.route[2], last_route.peers)
    /\ \A k \in 1..Len(last_route.peers) :
          _calculate_peer_score(router, last_route.peers[k])
              <= _calculate_peer_score(router, last_route.info.route[2])

PeerRank(p) == IF p = "peer1" THEN 1 ELSE 2

\* the candidates of the last call whose score is maximal
MaximalCandidates ==
    {last_route.peers[j] : j \in
        {i \in 1..Len(last_route.peers) :
            \A k \in 1..Len(last_route.peers) :
                _calculate_peer_score(router, last_route.peers[k])
                    <= _calculate_peer_score(router, last_route.peers[i])}}

\* C21: among several candidates of maximal score the route goes through the one
\* measured most recently, and among those through the one whose identifier is
\* lexically smallest, whatever the order of the candidate list.
C21_TieBreak ==
    ViaCandidate =>
        LET best == last_route.info.route[2]
            M == MaximalCandidates
        IN  /\ (M \subseteq DOMAIN router.peer_metrics) =>
                  /\ \A p \in M : router.peer_metrics[p].last_updated
                                      <= router.peer_metrics[best].last_updated
                  /\ \A p \in M : router.peer_metrics[p].last_updated
                                      = router.peer_metrics[best].last_updated
                                    => PeerRank(best) <= PeerRank(p)
            /\ (M \cap DOMAIN router.peer_metrics = {}) =>
                  \A p \in M : PeerRank(best) <= PeerRank(p)


(***************************************************************************)
(* The moving average of record_route_performance in floating point.       *)
(***************************************************************************)
EmaInit ==
    /\ FTIdle
    /\ CryptoIdle
    /\ RouterIdle
    /\ MgrIdle
    /\ EmaIdle
    /\ now = 0

\* the measurements: the whole numbers from 1 to MaxSample
FloatSamples == {i * Pow2(FracBits) : i \in 1..MaxSample}

\* the first measurement of a peer: lines 167-175
EmaFirst(observed) ==
    /\ ~ema.measured
    /\ ema' = [measured |-> TRUE, updated |-> FALSE, value |-> observed,
               observed |-> observed, prior |-> 0]
    /\ UNCHANGED <<now, ftVars, cryptoVars, routeVars, mgrVars>>

\* a later measurement: lines 149-166
EmaUpdate(observed) ==
    /\ ema.measured
    /\ ema' = [measured |-> TRUE, updated |-> TRUE, value |-> Ema(observed, ema.value),
               observed |-> observed, prior |-> ema.value]
    /\ UNCHANGED <<now, ftVars, cryptoVars, routeVars, mgrVars>>

EmaNext ==
    \/ \E x \in FloatSamples : EmaFirst(x)
    \/ \E x \in FloatSamples : EmaUpdate(x)

SpecEma == EmaInit /\ [][EmaNext]_vars

Abs(x) == IF x < 0 THEN -x ELSE x

\* C22: a measurement of a peer that has metrics never moves the metric away from
\* the observation: |new - observed| <= |prior - observed|.
C22_EmaNeverMovesAway ==
    ema.updated => Abs(ema.value - ema.observed) <= Abs(ema.prior - ema.observed)


(***************************************************************************)
(* The node manager: its lifecycle, its background tasks and its sends.    *)
(***************************************************************************)
\* the ports the operating system hands out for bind_port 0
OsPorts == {40001}

\* the age of last_seen beyond which _cleanup_loop removes a peer (line 307)
StaleAfter == 300

\* max_retries of execute_with_fault_tolerance, which the manager leaves at its
\* default (fault_tolerance.py line 42)
DefaultMaxRetries == 3

\* msg.serialize(): the JSON text of the P2PMessage, as bytes
Serialized == "{\"type\": \"inference_request\"}"

\* the targets handed to send_quantum_encrypted_message
SendTargets == TargetNodes \cup {Unencodable}

MgrInit ==
    /\ FTIdle
    /\ CryptoIdle
    /\ RouterIdle
    /\ EmaIdle
    /\ MgrIdle
    /\ now = 0

Event(kind) == [NoMgrEvent EXCEPT !.kind = kind]

\* the coroutines of one kind in flight
Running(kind) == {t \in tasks : t.kind = kind}

\* a start_network that starts again although the node runs
AlreadyRunningNever(self) == FALSE

\* `if self.running`, line 70
AlreadyRunning(self) == self.running

\* start_network is called: lines 70-79, up to the await of asyncio.start_server
StartNetwork ==
    /\ IF AlreadyRunning(mgr)
       THEN /\ mgr_event' = [Event("start_network") EXCEPT !.ret = "True"]
            /\ UNCHANGED <<mgr, net, tasks>>
       ELSE /\ Running("start_network") = {}
            /\ tasks' = tasks \cup {[kind |-> "start_network", gen |-> net.binds + 1]}
            /\ mgr_event' = Event("start_begun")
            /\ UNCHANGED <<mgr, net>>
    /\ UNCHANGED <<now, sends, conns, ftVars, cryptoVars, routeVars, emaVars>>

\* asyncio.start_server returns a listener: lines 75-91
StartServerReturns(t, port) ==
    /\ t.kind = "start_network"
    /\ port \notin net.listening
    /\ IF mgr.bind_port = 0 THEN port \in OsPorts ELSE port = mgr.bind_port
    /\ net' = [net EXCEPT !.listening = @ \cup {port}, !.binds = @ + 1]
    /\ mgr' = [mgr EXCEPT !.server = port, !.bind_port = port, !.running = TRUE]
    /\ tasks' = (tasks \ {t}) \cup {[kind |-> "heartbeat", gen |-> t.gen],
                                    [kind |-> "cleanup", gen |-> t.gen]}
    /\ mgr_event' = [Event("start_returned") EXCEPT !.ret = "True"]
    /\ UNCHANGED <<now, sends, conns, ftVars, cryptoVars, routeVars, emaVars>>

\* a start of the node, of at most MaxStarts
StartBinds(t, port) ==
    /\ net.binds < MaxStarts
    /\ StartServerReturns(t, port)

\* asyncio.start_server raises (the port is taken, or any other OSError): lines 93-95
StartFails(t) ==
    /\ t.kind = "start_network"
    /\ tasks' = tasks \ {t}
    /\ mgr_event' = [Event("start_returned") EXCEPT !.ret = "False"]
    /\ UNCHANGED <<now, mgr, net, sends, conns, ftVars, cryptoVars, routeVars, emaVars>>

\* `await writer.wait_closed()`, line 275, raises: the connection of the writer was
\* lost with an error (asyncio sets the exception on the future wait_closed awaits)
WaitClosedRaises(peer_info) == peer_info.writer = "reset"

\* _disconnect_peer, lines 268-277; a writer, when there is one, is closed, and when
\* wait_closed raises, the `del` of line 276 is not reached
_disconnect_peer(self, peer_id) ==
    IF /\ peer_id \in DOMAIN self.connected_peers
       /\ ~WaitClosedRaises(self.connected_peers[peer_id])
    THEN [self EXCEPT !.connected_peers =
                          [p \in (DOMAIN @) \ {peer_id} |-> @[p]]]
    ELSE self

RECURSIVE DisconnectAll(_, _)
DisconnectAll(self, peer_ids) ==
    IF peer_ids = {} THEN self
    ELSE LET p == CHOOSE x \in peer_ids : TRUE
         IN  DisconnectAll(_disconnect_peer(self, p), peer_ids \ {p})

\* stop_network is called: lines 99-107, up to the await of server.wait_closed()
StopNetwork ==
    /\ IF ~mgr.running
       THEN /\ mgr_event' = Event("stop_network")
            /\ UNCHANGED <<mgr, net, tasks>>
       ELSE /\ mgr' = [mgr EXCEPT !.running = FALSE]
            /\ net' = [net EXCEPT !.listening = @ \ {mgr.server}]
            /\ tasks' = tasks \cup {[kind |-> "stop_network", gen |-> net.binds]}
            /\ mgr_event' = Event("stop_begun")
    /\ UNCHANGED <<now, sends, conns, ftVars, cryptoVars, routeVars, emaVars>>

\* server.wait_closed() returns: lines 109-113
StopReturns(t) ==
    /\ t.kind = "stop_network"
    /\ mgr' = DisconnectAll(mgr, DOMAIN mgr.connected_peers)
    /\ tasks' = tasks \ {t}
    /\ mgr_event' = Event("stop_returned")
    /\ UNCHANGED <<now, net, sends, conns, ftVars, cryptoVars, routeVars, emaVars>>

\* the peers _cleanup_loop finds stale, lines 305-308
StalePeers(self) ==
    {p \in DOMAIN self.connected_peers :
        now - self.connected_peers[p].last_seen > StaleAfter}

\* The managers a round of _cleanup_loop can leave, lines 302-311: every stale peer
\* is disconnected, or, when the wait_closed of one of them raises, the stale peers
\* the loop of line 310 came to before it (the round ends in the handler of line 318).
SweepOutcomes(self) ==
    LET stale == StalePeers(self)
        raising == {p \in stale : WaitClosedRaises(self.connected_peers[p])}
    IN  IF raising = {}
        THEN {DisconnectAll(self, stale)}
        ELSE {DisconnectAll(self, before) : before \in SUBSET (stale \ raising)}

\* A background task comes to the test of its loop, at its first run or when its
\* sleep ends (lines 281-293 and 300-316): it does its round and sleeps again while
\* running is True, and ends otherwise.
TaskRuns(t) ==
    /\ t.kind \in {"heartbeat", "cleanup"}
    /\ IF mgr.running
       THEN /\ \E after \in (IF t.kind = "cleanup" THEN SweepOutcomes(mgr) ELSE {mgr}) :
                   mgr' = after
            /\ tasks' = tasks
            /\ mgr_event' = Event(t.kind \o "_ran")
       ELSE /\ mgr' = mgr
            /\ tasks' = tasks \ {t}
            /\ mgr_event' = Event("task_ended")
    /\ UNCHANGED <<now, net, sends, conns, ftVars, cryptoVars, routeVars, emaVars>>

\* a test that lets a failed encryption through
EncryptionNeverFails(encrypted_result) == FALSE

\* `if not encrypted_result.get("encrypted")`, line 131
EncryptionFailed(encrypted_result) == ~encrypted_result.encrypted

\* what a send returns when the encryption failed, lines 133-137
EncryptionFailedResult(encrypted_result) ==
    [success |-> FALSE, error |-> "encryption_failed",
     details |-> IF encrypted_result.encrypted THEN NoneVal
                 ELSE encrypted_result.error]

\* send_quantum_encrypted_message is called: lines 123-150 and, in
\* execute_with_fault_tolerance, the lines up to the first await of the operation.
SendCalled(target_node) ==
    LET e == quantum_encrypt(mgr.quantum, Serialized, target_node, "n1",
                             <<"secret", mgr.encryption_successes
                                           + mgr.encryption_failures + 1>>)
        circuit_key == CircuitKey(target_node, "send_message")
        counted == [mgr EXCEPT !.quantum = e.self, !.encryption_successes = @ + 1]
        ce == _can_execute(counted.fault, circuit_key)
        frame == [NewCall(target_node, circuit_key, DefaultMaxRetries,
                          ce.self.circuit_states[circuit_key], 0)
                    EXCEPT !.pc = "invoke"]
        ev == [Event("send_begun") EXCEPT !.begun_running = mgr.running,
                                          !.encrypted = e.ret.encrypted]
    IN
    /\ mgr.encryption_successes + mgr.encryption_failures < MaxSends
    /\ net' = [net EXCEPT !.emitted = IF e.ret.encrypted THEN Append(@, e.ret) ELSE @]
    /\ IF EncryptionFailed(e.ret)
       THEN /\ mgr' = [mgr EXCEPT !.quantum = e.self, !.encryption_failures = @ + 1]
            /\ sends' = sends
            /\ mgr_event' = [ev EXCEPT !.kind = "send_returned",
                                       !.ret = EncryptionFailedResult(e.ret)]
       ELSE IF ~ce.ret
       THEN /\ mgr' = [counted EXCEPT !.fault = ce.self]
            /\ sends' = sends
            /\ mgr_event' = [ev EXCEPT !.kind = "send_returned",
                                       !.ret = RefusedResult(ce.self, circuit_key)]
       ELSE /\ mgr' = [counted EXCEPT !.fault = ce.self]
            /\ sends' = sends \cup {[call |-> frame, encrypted_data |-> e.ret,
                                     begun_running |-> mgr.running]}
            /\ mgr_event' = ev
    /\ UNCHANGED <<now, tasks, conns, ftVars, cryptoVars, routeVars, emaVars>>

\* A send by a caller that awaits each send before it makes the next one;
\* start_network, stop_network, get_metrics and the background tasks run while the
\* send is in flight.
SendBegins(target_node) ==
    /\ sends = {}
    /\ SendCalled(target_node)

\* An attempt of a send raises ConnectionError(reason) in a manager m, and what the
\* retry loop makes of it (fault_tolerance.py lines 84-109): the manager, the sends,
\* the frames written and the event after it
AttemptRaises(m, sd, ev, reason) ==
    LET c == sd.call
        failed == [c EXCEPT !.last_exception = reason]
        after == _record_failure(m.fault, c.circuit_key)
    IN  IF AnotherAttempt(failed)
        THEN [mgr |-> [m EXCEPT !.fault = after],
              sends |-> (sends \ {sd})
                          \cup {[sd EXCEPT !.call = [failed EXCEPT !.pc = "sleeping"]]},
              written |-> net.written, wire |-> net.wire, written_at |-> net.written_at,
              event |-> [ev EXCEPT !.raised = reason]]
        ELSE [mgr |-> [m EXCEPT !.fault = after],
              sends |-> sends \ {sd},
              written |-> net.written, wire |-> net.wire, written_at |-> net.written_at,
              event |-> [ev EXCEPT !.raised = reason, !.kind = "send_returned",
                                   !.ret = ExhaustedResult(after, failed)]]

\* `if not writer`, line 168
NoWriter(peer_info) == peer_info.writer = NoneVal

\* _send_to_peer from line 167 on, in a manager m that knows the peer, and what the
\* retry loop makes of its outcome (fault_tolerance.py lines 68-109, then lines
\* 152-155 here): the manager, the sends, the frames written and the event after it
Written(m, sd, ev) ==
    LET c == sd.call
        peer_info == m.connected_peers[c.peer_id]
    IN  IF NoWriter(peer_info)
        THEN AttemptRaises(m, sd, ev, "No active connection to " \o c.peer_id)
        ELSE [mgr |-> [m EXCEPT !.fault = _record_success(m.fault, c.circuit_key),
                                !.routing = record_route_performance(
                                                m.routing, c.peer_id, 10, 100, TRUE),
                                !.messages_sent = @ + 1],
              sends |-> sends \ {sd},
              written |-> net.written + 1,
              wire |-> Append(net.wire, sd.encrypted_data),
              written_at |-> DictSet(net.written_at, c.peer_id, now),
              event |-> [ev EXCEPT !.kind = "send_returned", !.ret = SuccessResult(c)]]

\* The operation of an attempt starts: _send_to_peer, lines 159-162 up to the sleep
\* of _discover_and_connect_peer when the peer is not connected, to its end when
\* it is.
SendInvokes(sd) ==
    LET ev == [Event("invoked") EXCEPT !.begun_running = sd.begun_running,
                                       !.encrypted = TRUE]
        w == Written(mgr, sd, ev)
    IN
    /\ sd.call.pc = "invoke"
    /\ IF sd.call.peer_id \notin DOMAIN mgr.connected_peers
       THEN /\ sends' = (sends \ {sd})
                          \cup {[sd EXCEPT !.call = [sd.call EXCEPT !.pc = "discovering"]]}
            /\ mgr_event' = [ev EXCEPT !.kind = "discovering"]
            /\ UNCHANGED <<mgr, net>>
       ELSE /\ mgr' = w.mgr
            /\ sends' = w.sends
            /\ net' = [net EXCEPT !.written = w.written, !.wire = w.wire,
                               !.written_at = w.written_at]
            /\ mgr_event' = w.event
    /\ UNCHANGED <<now, tasks, conns, ftVars, cryptoVars, routeVars, emaVars>>

\* _discover_and_connect_peer, lines 260-266, after its sleep
_discover_and_connect_peer(self, peer_id) ==
    [self |-> [self EXCEPT !.connected_peers =
                  DictSet(@, peer_id, [connected_at |-> now, last_seen |-> now,
                                       writer |-> NoneVal])],
     ret |-> TRUE]

\* The sleep of _discover_and_connect_peer ends: it returns and _send_to_peer goes
\* on from line 162.
SendDiscovers(sd) ==
    LET d == _discover_and_connect_peer(mgr, sd.call.peer_id)
        ev == [Event("discovered") EXCEPT !.begun_running = sd.begun_running,
                                          !.encrypted = TRUE,
                                          !.discovery = d.ret]
        w == IF ~d.ret
             THEN AttemptRaises(d.self, sd, ev,
                                "Cannot connect to peer " \o sd.call.peer_id)
             ELSE Written(d.self, sd, ev)
    IN
    /\ sd.call.pc = "discovering"
    /\ mgr' = w.mgr
    /\ sends' = w.sends
    /\ net' = [net EXCEPT !.written = w.written, !.wire = w.wire,
                               !.written_at = w.written_at]
    /\ mgr_event' = [w.event EXCEPT !.kind = "discovered"]
    /\ UNCHANGED <<now, tasks, conns, ftVars, cryptoVars, routeVars, emaVars>>

\* the backoff sleep of a send ends (fault_tolerance.py line 101)
SendBackoffElapses(sd) ==
    /\ sd.call.pc = "sleeping"
    /\ sends' = (sends \ {sd})
                  \cup {[sd EXCEPT !.call = [sd.call EXCEPT !.pc = "invoke",
                                                            !.attempt = @ + 1,
                                                            !.invoked = @ + 1]]}
    /\ mgr_event' = [Event("retry") EXCEPT !.begun_running = sd.begun_running,
                                           !.encrypted = TRUE]
    /\ UNCHANGED <<now, mgr, net, tasks, conns, ftVars, cryptoVars, routeVars, emaVars>>

\* the quotient a / b of two counters, kept exact as the pair <<a, b>>
Quotient(a, b) == <<a, b>>

\* two quotients are the same number
SameNumber(q, r) == q[1] * r[2] = r[1] * q[2]

\* get_metrics, lines 321-334
get_metrics(self) ==
    [node_id |-> self.node_id,
     running |-> self.running,
     connected_peers |-> Cardinality(DOMAIN self.connected_peers),
     messages_sent |-> self.messages_sent,
     messages_received |-> self.messages_received,
     encryption_success_rate |->
         Quotient(self.encryption_successes,
                  Max(1, self.encryption_successes + self.encryption_failures)),
     bind_port |-> self.bind_port]

\* get_metrics is called
GetMetrics ==
    /\ mgr_event' = [Event("get_metrics") EXCEPT !.ret = get_metrics(mgr)]
    /\ UNCHANGED <<now, mgr, net, tasks, sends, conns, ftVars, cryptoVars, routeVars,
                   emaVars>>

MgrNext ==
    \/ StartNetwork
    \/ \E t \in tasks, port \in OsPorts : StartBinds(t, port)
    \/ \E t \in tasks : StartFails(t)
    \/ StopNetwork
    \/ \E t \in tasks : StopReturns(t)
    \/ \E t \in tasks : TaskRuns(t)
    \/ \E target_node \in SendTargets : SendBegins(target_node)
    \/ \E sd \in sends : SendInvokes(sd)
    \/ \E sd \in sends : SendDiscovers(sd)
    \/ \E sd \in sends : SendBackoffElapses(sd)
    \/ GetMetrics

SpecManager == MgrInit /\ [][MgrNext]_vars

\* a start of the node, of at most MaxGenerations
Restarts(t, port) ==
    /\ net.binds < MaxGenerations
    /\ StartServerReturns(t, port)

\* The node is started and stopped again and again, and its background tasks run.
LifecycleNext ==
    \/ StartNetwork
    \/ \E t \in tasks, port \in OsPorts : Restarts(t, port)
    \/ \E t \in tasks : StartFails(t)
    \/ StopNetwork
    \/ \E t \in tasks : StopReturns(t)
    \/ \E t \in tasks : TaskRuns(t)

SpecLifecycle == MgrInit /\ [][LifecycleNext]_vars


(***************************************************************************)
(* Inbound connections: _handle_peer_connection and                        *)
(* _process_encrypted_message.                                             *)
(***************************************************************************)
\* `1024 * 1024`, line 204
max_frame_bytes == 1048576

\* the length of the payload of an ordinary frame
PayloadBytes == 512

\* writer.get_extra_info('peername') of the remote peers
PeerAddrs == {<<"10.0.0.1", 5000>>, <<"10.0.0.2", 5001>>}

\* the remote peers whose session key the key exchange gives to the node
KeyedAddrs == {<<"10.0.0.1", 5000>>}

\* f"peer_{peer_addr[0]}_{peer_addr[1]}", line 226
SenderId(peer_addr) == "peer_" \o peer_addr[1] \o "_" \o ToString(peer_addr[2])

\* the 32-byte secret of the remote peer at peer_addr
RemoteSecret(peer_addr) == <<"secret", peer_addr[2]>>

\* The QuantumEncryptionProtocol object of the remote peer at peer_addr, whose
\* node id is the sender id the node gives it, after it has emitted so many
\* envelopes to target_node.
Remote(peer_addr, target_node, emitted) ==
    LET g == _get_or_create_key(NewProtocol(SenderId(peer_addr)), target_node,
                                RemoteSecret(peer_addr))
    IN  [g.self EXCEPT !.key_store[g.key_id].sequence_number = emitted]

\* the envelope that remote peer's quantum_encrypt returns for data, as its
\* sequence-th envelope to target_node
RemoteEnvelope(peer_addr, target_node, data, sequence) ==
    quantum_encrypt(Remote(peer_addr, target_node, sequence - 1), data, target_node,
                    "n1", RemoteSecret(peer_addr)).ret

\* self.ttl = 300, line 31
message_ttl == 300

\* the serialized P2PMessage of a sender that made it message_ttl + 1 seconds
\* before the clock of the model started
SerializedExpired == "{\"type\": \"inference_request\", \"timestamp\": -301}"

\* what the remote peers encrypt: a serialized P2PMessage just made, one made more
\* than its ttl ago, and bytes that are no JSON
InboundPlaintexts == {Serialized, SerializedExpired, "Hello quantum world!"}

\* the envelopes the remote peer at peer_addr emits to the node
EnvelopesOf(peer_addr) ==
    {RemoteEnvelope(peer_addr, mgr.node_id, d, q) :
        d \in InboundPlaintexts, q \in 1 .. MaxInboundSeq}

\* the envelopes as emitted, by either peer
WireEnvelopes == UNION {EnvelopesOf(a) : a \in PeerAddrs}

\* the first envelope of the keyed peer
FirstEnvelope ==
    RemoteEnvelope(CHOOSE a \in KeyedAddrs : TRUE, mgr.node_id, Serialized, 1)

\* an envelope whose hmac is other bytes
AlteredEnvelopes == {[FirstEnvelope EXCEPT !.hmac = Hex(Flipped("hmac", FromHex(@)))]}

\* envelopes that lack a field
LackingEnvelopes ==
    {[g \in (DOMAIN FirstEnvelope) \ {f} |-> FirstEnvelope[g]] : f \in {"key_id", "hmac"}}

\* the payloads on the wire: the JSON text of an envelope, or bytes that are no JSON
Payloads ==
    {[valid |-> TRUE, json |-> e] :
        e \in WireEnvelopes \cup AlteredEnvelopes \cup LackingEnvelopes}
    \cup {[valid |-> FALSE, json |-> <<>>]}

\* the frames on the wire: a length header and the payload that follows it
WireFrames ==
    {[length |-> PayloadBytes, payload |-> p] : p \in Payloads}
    \cup {[length |-> n, payload |-> [valid |-> TRUE, json |-> FirstEnvelope]] :
            n \in {max_frame_bytes, max_frame_bytes + 1}}

\* json.loads(text.decode('utf-8')) of a decrypted plaintext
JsonLoads(text) ==
    IF text = Serialized
    THEN [ok |-> TRUE,
          value |-> [type |-> "inference_request", timestamp |-> 0,
                     ttl |-> message_ttl]]
    ELSE IF text = SerializedExpired
    THEN [ok |-> TRUE,
          value |-> [type |-> "inference_request", timestamp |-> 0 - (message_ttl + 1),
                     ttl |-> message_ttl]]
    ELSE [ok |-> FALSE, value |-> <<>>]

\* P2PMessage.is_expired, lines 43-44, for a message as it was decoded
MessageExpired(message) == now - message.timestamp > message.ttl

\* `if decrypted_data`, line 231
Decrypted(decrypted_data) == decrypted_data # NoneVal

\* _process_encrypted_message, lines 222-239: the manager after it, whether a
\* registered handler was invoked, what was logged, and what quantum_decrypt logged
_process_encrypted_message(self, encrypted_data, peer_addr) ==
    LET sender_id == SenderId(peer_addr)
        d == quantum_decrypt(self.quantum, encrypted_data, sender_id)
        after == [self EXCEPT !.quantum = d.self]
    IN  IF Decrypted(d.ret)
        THEN LET message == JsonLoads(d.ret)
             IN  IF ~message.ok
                 THEN [self |-> after, handled |-> FALSE, message |-> <<>>,
                       log |-> "Error processing message", decrypt_log |-> d.log]
                 ELSE [self |-> [after EXCEPT !.messages_received = @ + 1],
                       handled |-> message.value.type \in after.message_handlers,
                       message |-> message.value,
                       log |-> NoneVal, decrypt_log |-> d.log]
        ELSE [self |-> after, handled |-> FALSE, message |-> <<>>,
              log |-> "Failed to decrypt message", decrypt_log |-> d.log]

\* the program registers a handler: manager.message_handlers[msg_type] = handler
RegisterHandler(msg_type) ==
    /\ msg_type \notin mgr.message_handlers
    /\ mgr' = [mgr EXCEPT !.message_handlers = @ \cup {msg_type}]
    /\ mgr_event' = Event("handler_registered")
    /\ UNCHANGED <<now, net, tasks, sends, conns, ftVars, cryptoVars, routeVars,
                   emaVars>>

\* the key exchange puts the session key of a remote peer into the node's key store
InstallKey(peer_addr) ==
    LET remote == Remote(peer_addr, mgr.node_id, 0)
        key_id == SenderId(peer_addr) \o ":" \o mgr.node_id
    IN  /\ key_id \notin DOMAIN mgr.quantum.key_store
        /\ mgr' = [mgr EXCEPT !.quantum.key_store =
                                  DictSet(@, key_id, remote.key_store[key_id])]
        /\ mgr_event' = Event("key_installed")
        /\ UNCHANGED <<now, net, tasks, sends, conns, ftVars, cryptoVars, routeVars,
                       emaVars>>

\* a remote peer connects to the listener: _handle_peer_connection starts, line 195
PeerConnects(peer_addr) ==
    /\ mgr.running
    /\ peer_addr \notin DOMAIN conns
    /\ conns' = DictSet(conns, peer_addr, [open |-> TRUE, failed |-> {}])
    /\ mgr_event' = [Event("connected") EXCEPT !.peer = peer_addr]
    /\ UNCHANGED <<now, mgr, net, tasks, sends, ftVars, cryptoVars, routeVars, emaVars>>

\* the remote peer closes the connection: at_eof or IncompleteReadError, lines 199,
\* 214-220
PeerDisconnects(peer_addr) ==
    /\ peer_addr \in DOMAIN conns
    /\ conns[peer_addr].open
    /\ conns' = [conns EXCEPT ![peer_addr].open = FALSE]
    /\ mgr_event' = [Event("eof") EXCEPT !.peer = peer_addr]
    /\ UNCHANGED <<now, mgr, net, tasks, sends, ftVars, cryptoVars, routeVars, emaVars>>

\* One round of the loop of _handle_peer_connection, lines 199-212, and lines
\* 216-220 when it leaves the loop: a frame arrives on an open connection.
FrameArrives(peer_addr, frame) ==
    LET ev == [Event("frame") EXCEPT !.peer = peer_addr, !.frame = frame]
        r == _process_encrypted_message(mgr, frame.payload.json, peer_addr)
    IN
    /\ peer_addr \in DOMAIN conns
    /\ conns[peer_addr].open
    /\ net.read < MaxFrames
    /\ net' = [net EXCEPT !.read = @ + 1]
    /\ IF frame.length > max_frame_bytes
       THEN /\ conns' = [conns EXCEPT ![peer_addr].open = FALSE]
            /\ mgr_event' = [ev EXCEPT !.log = "Message too large"]
            /\ mgr' = mgr
       ELSE IF ~frame.payload.valid
       THEN /\ conns' = [conns EXCEPT ![peer_addr].open = FALSE]
            /\ mgr_event' = [ev EXCEPT !.log = "Error handling peer"]
            /\ mgr' = mgr
       ELSE /\ conns' = [conns EXCEPT ![peer_addr].failed =
                                         IF r.decrypt_log = NoneVal THEN @
                                         ELSE @ \cup {r.decrypt_log}]
            /\ mgr_event' = [ev EXCEPT !.handled = r.handled, !.log = r.log,
                                       !.message = r.message]
            /\ mgr' = r.self
    /\ UNCHANGED <<now, tasks, sends, ftVars, cryptoVars, routeVars, emaVars>>

InboundNext ==
    \/ StartNetwork
    \/ \E t \in tasks, port \in OsPorts : StartBinds(t, port)
    \/ RegisterHandler("inference_request")
    \/ \E a \in KeyedAddrs : InstallKey(a)
    \/ \E a \in PeerAddrs : PeerConnects(a)
    \/ \E a \in PeerAddrs : PeerDisconnects(a)
    \/ \E a \in PeerAddrs, frame \in WireFrames : FrameArrives(a, frame)

SpecInbound == MgrInit /\ [][InboundNext]_vars


(***************************************************************************)
(* Concurrent sends to a peer whose connection the program has registered. *)
(***************************************************************************)
\* The program registers a connection to a peer, as examples/p2p_hello_world.py
\* does: connected_peers[peer_id] = {"writer": writer, "connected_at": ...,
\* "last_seen": ...}.
RegisterPeer(peer_id) ==
    /\ peer_id \notin DOMAIN mgr.connected_peers
    /\ mgr' = [mgr EXCEPT !.connected_peers =
                  DictSet(@, peer_id, [connected_at |-> now, last_seen |-> now,
                                       writer |-> "writer"])]
    /\ mgr_event' = Event("peer_registered")
    /\ UNCHANGED <<now, net, tasks, sends, conns, ftVars, cryptoVars, routeVars,
                   emaVars>>

\* A send is called while other sends are in flight (each send is a task of its own).
ConcurrentSend(target_node) ==
    /\ Cardinality(sends) < MaxInFlightSends
    /\ SendCalled(target_node)

\* The first attempts of the sends start in the order the sends were called (the
\* event loop runs what is ready first in, first out); the envelope's sequence
\* gives the order of the calls.
FirstInOrder(sd) ==
    sd.call.attempt = 0 =>
        \A other \in sends :
            (other.call.attempt = 0 /\ other.call.pc = "invoke")
                => other.encrypted_data.sequence >= sd.encrypted_data.sequence

\* An attempt of a send starts when its turn has come.
SendAttempts(sd) ==
    /\ FirstInOrder(sd)
    /\ SendInvokes(sd)

\* The write of an attempt raises (the connection reports an error in
\* writer.drain(), line 176) and nothing of the frame reaches the peer.
WriteFails(sd) ==
    LET ev == [Event("write_failed") EXCEPT !.begun_running = sd.begun_running,
                                            !.encrypted = TRUE]
        w == AttemptRaises(mgr, sd, ev, "Connection lost")
    IN
    /\ sd.call.pc = "invoke"
    /\ FirstInOrder(sd)
    /\ sd.call.peer_id \in DOMAIN mgr.connected_peers
    /\ ~NoWriter(mgr.connected_peers[sd.call.peer_id])
    /\ mgr' = w.mgr
    /\ sends' = w.sends
    /\ mgr_event' = [w.event EXCEPT !.kind = "write_failed"]
    /\ UNCHANGED <<now, net, tasks, conns, ftVars, cryptoVars, routeVars, emaVars>>

WireNext ==
    \/ \E p \in TargetNodes : RegisterPeer(p)
    \/ \E target_node \in TargetNodes : ConcurrentSend(target_node)
    \/ \E sd \in sends : SendAttempts(sd)
    \/ \E sd \in sends : WriteFails(sd)
    \/ \E sd \in sends : SendDiscovers(sd)
    \/ \E sd \in sends : SendBackoffElapses(sd)

SpecWire == MgrInit /\ [][WireNext]_vars

\* Time passes between the rounds of the cleanup loop.
SweepClockAdvances ==
    /\ now + SweepStep <= MaxSweepClock
    /\ now' = now + SweepStep
    /\ mgr_event' = Event("clock")
    /\ UNCHANGED <<mgr, net, tasks, sends, conns, ftVars, cryptoVars, routeVars,
                   emaVars>>

\* The connection of a connected peer is lost with an error (the peer resets it):
\* the transport reports it to the stream, and the peer's entry stays as it is.
ConnectionLost(peer_id) ==
    /\ peer_id \in DOMAIN mgr.connected_peers
    /\ mgr.connected_peers[peer_id].writer = "writer"
    /\ mgr' = [mgr EXCEPT !.connected_peers[peer_id].writer = "reset"]
    /\ mgr_event' = Event("connection_lost")
    /\ UNCHANGED <<now, net, tasks, sends, conns, ftVars, cryptoVars, routeVars,
                   emaVars>>

\* A running node with peers that were connected from outside, sends to them, the
\* clock and the background tasks.
CleanupNext ==
    \/ StartNetwork
    \/ \E t \in tasks, port \in OsPorts : StartBinds(t, port)
    \/ \E p \in TargetNodes : RegisterPeer(p)
    \/ \E p \in TargetNodes : ConnectionLost(p)
    \/ \E target_node \in TargetNodes : SendBegins(target_node)
    \/ \E sd \in sends : SendInvokes(sd)
    \/ \E sd \in sends : SendDiscovers(sd)
    \/ \E sd \in sends : SendBackoffElapses(sd)
    \/ \E t \in tasks : TaskRuns(t)
    \/ SweepClockAdvances

SpecCleanup == MgrInit /\ [][CleanupNext]_vars


\* stop_network has returned and start_network has not been called since
Stopped ==
    /\ ~mgr.running
    /\ mgr.server # NoServer
    /\ Running("stop_network") = {}
    /\ Running("start_network") = {}

\* C23: a start_network call made while running is True returns True and changes
\* nothing: no second listener, the same bind_port, no further background task.
C23_StartIdempotent ==
    [][(mgr.running /\ mgr_event'.kind \in {"start_network", "start_begun"}) =>
          /\ mgr_event'.kind = "start_network"
          /\ mgr_event'.ret = "True"
          /\ mgr' = mgr
          /\ net' = net
          /\ tasks' = tasks]_vars

\* start_network was called on a running node, whose listener and two tasks are there
C23_Witness ==
    /\ mgr_event.kind = "start_network"
    /\ mgr.running
    /\ net.listening = {mgr.bind_port}
    /\ Cardinality(tasks) = 2

\* C24: once stop_network has returned, no heartbeat or cleanup task of an earlier
\* start_network is alive.
C24_StopJoinsTasks ==
    Stopped => Running("heartbeat") \cup Running("cleanup") = {}

\* C25: after stop_network has returned the node is stopped, running is False and
\* connected_peers is empty, at the return and when a send that began on the
\* running node and was in flight during stop_network goes on.
C25_StoppedHasNoPeers ==
    (/\ Stopped
     /\ \/ mgr_event.kind = "stop_returned"
        \/ mgr_event.kind = "discovered" /\ mgr_event.begun_running)
       => mgr.connected_peers = <<>>

\* a send_quantum_encrypted_message call whose encryption failed has just been made
EncryptionFailedStep ==
    /\ mgr_event'.kind \in {"send_begun", "send_returned"}
    /\ ~mgr_event'.encrypted

\* C26 as stated: when the encryption fails the send returns success False with
\* error 'encryption_failed', encryption_failures goes up by one and nothing else
\* of the manager changes.
C26_AsStated ==
    [][EncryptionFailedStep =>
          /\ mgr_event'.kind = "send_returned"
          /\ mgr_event'.ret.success = FALSE
          /\ mgr_event'.ret.error = "encryption_failed"
          /\ mgr' = [mgr EXCEPT !.encryption_failures = @ + 1]
          /\ sends' = sends
          /\ net' = net]_vars

\* C26: when the encryption fails the send returns success False with error
\* 'encryption_failed', encryption_failures goes up by one, and outside the crypto
\* engine nothing else changes: no call of the fault executor begins, nothing is
\* written, and messages_sent, the circuits and the peers are as before.
C26_EncryptionFailureOnlyCounted ==
    [][EncryptionFailedStep =>
          /\ mgr_event'.kind = "send_returned"
          /\ mgr_event'.ret.success = FALSE
          /\ mgr_event'.ret.error = "encryption_failed"
          /\ mgr' = [mgr EXCEPT !.quantum = mgr'.quantum,
                                !.encryption_failures = @ + 1]
          /\ sends' = sends
          /\ net' = net]_vars

\* a send on the running node has returned after its encryption failed
C26_Witness ==
    /\ mgr_event.kind = "send_returned"
    /\ ~mgr_event.encrypted
    /\ mgr.running
    /\ mgr.encryption_failures = 1

\* C27: when _discover_and_connect_peer reports success the attempt raises nothing
\* and goes on to write the frame to the discovered peer.
C27_DiscoveredThenWritten ==
    [][(mgr_event'.kind = "discovered" /\ mgr_event'.discovery) =>
          /\ mgr_event'.raised = NoneVal
          /\ net'.written = net.written + 1]_vars

\* C28: get_metrics reports encryption_success_rate as successes / (successes +
\* failures), and as 1.0 when no encryption has been attempted.
C28_SuccessRate ==
    mgr_event.kind = "get_metrics" =>
        LET attempts == mgr.encryption_successes + mgr.encryption_failures
            rate == mgr_event.ret.encryption_success_rate
        IN  IF attempts = 0
            THEN SameNumber(rate, Quotient(1, 1))
            ELSE SameNumber(rate, Quotient(mgr.encryption_successes, attempts))

\* a frame that passes the framing and carries an envelope with every field
WellFormed(frame) ==
    /\ frame.length <= max_frame_bytes
    /\ frame.payload.valid
    /\ RequiredFields \subseteq DOMAIN frame.payload.json

\* A well-formed frame from peer_addr carries a crypto failure: its key is not in the
\* key store, its sequence is not above the watermark of the sender, it was altered
\* after it was emitted (its HMAC is not that of its fields), or it was encrypted
\* under another sender's name (the AEAD key is another).
CryptoFailure(peer_addr, frame) ==
    LET e == frame.payload.json IN
    /\ WellFormed(frame)
    /\ \/ e.key_id \notin DOMAIN mgr.quantum.key_store
       \/ e.sequence <= DictGet(mgr.quantum.sequence_numbers, SenderId(peer_addr), 0)
       \/ e \notin WireEnvelopes
       \/ e \notin EnvelopesOf(peer_addr)

\* C29: a crypto failure on an inbound frame (unknown key, replay, HMAC mismatch, AEAD
\* failure) drops only that message: no handler is invoked, messages_received is
\* unchanged, and the connection stays open.
C29_CryptoFailureDropsMessage ==
    [][(mgr_event'.kind = "frame"
        /\ CryptoFailure(mgr_event'.peer, mgr_event'.frame)) =>
          /\ ~mgr_event'.handled
          /\ mgr'.messages_received = mgr.messages_received
          /\ conns'[mgr_event'.peer].open]_vars

\* a frame was decrypted and handed to its handler on a connection on which an
\* envelope with a wrong HMAC had been dropped before
C29_Witness ==
    /\ mgr_event.kind = "frame"
    /\ mgr_event.handled
    /\ mgr.messages_received = 1
    /\ "HMAC verification failed" \in conns[mgr_event.peer].failed

\* a frame that is a protocol error: its length is above 1 MiB, its payload is not
\* valid JSON, or its envelope lacks a required field
ProtocolError(frame) ==
    \/ frame.length > max_frame_bytes
    \/ ~frame.payload.valid
    \/ ~(RequiredFields \subseteq DOMAIN frame.payload.json)

\* C30: every protocol error on an inbound connection closes that connection.
C30_ProtocolErrorCloses ==
    [][(mgr_event'.kind = "frame" /\ ProtocolError(mgr_event'.frame)) =>
          ~conns'[mgr_event'.peer].open]_vars

\* C31: a receiver drops expired messages: no registered handler is invoked for a
\* decrypted message with now - timestamp > ttl.
C31_ExpiredNotHandled ==
    (mgr_event.kind = "frame" /\ mgr_event.handled) =>
        ~MessageExpired(mgr_event.message)

\* the sequence numbers of the envelopes on the wire to a peer, in the order written
RECURSIVE Increasing(_)
Increasing(envs) ==
    \/ Len(envs) < 2
    \/ /\ envs[1].sequence < envs[2].sequence
       /\ Increasing(Tail(envs))

\* C32: no two envelopes that quantum_encrypt returned under one key record carry
\* the same sequence number, however the sends that called it are interleaved.
C32_SequenceUnique ==
    \A i, j \in 1 .. Len(net.emitted) :
        (/\ i # j
         /\ net.emitted[i].key_id = net.emitted[j].key_id
         /\ EnvelopeSecret(net.emitted[i]) = EnvelopeSecret(net.emitted[j]))
            => net.emitted[i].sequence # net.emitted[j].sequence

\* two sends to one peer are in flight, each with the envelope of its own encrypt
C32_Witness ==
    /\ Cardinality(sends) = 2
    /\ Len(net.emitted) = 2
    /\ net.emitted[1].key_id = net.emitted[2].key_id

\* C33: the envelopes written to a peer's connection are on the wire in increasing
\* sequence order, so each is above the receiver's watermark when it arrives.
C33_WireOrdered == Increasing(net.wire)

\* C34: Key rotation. An encrypt that finds a stored key record no older than the TTL
\* emits under that record; an encrypt that finds a record older than the TTL installs
\* a record with another secret, whose counter restarted from zero (the envelope
\* carries sequence 1), and whose key identifier differs from the expired record's.
C34_RotationNewKeyId ==
    [][\A e \in envelopes' \ envelopes : \A n \in NodeIds :
          (protocol'[n] # protocol[n] /\ e.key_id \in DOMAIN protocol[n].key_store) =>
              LET old == protocol[n].key_store[e.key_id]
                  new == protocol'[n].key_store[e.key_id]
              IN  IF now - old.created_at <= ttl_seconds
                  THEN /\ new.symmetric_key = old.symmetric_key
                       /\ new.created_at = old.created_at
                  ELSE /\ new.symmetric_key # old.symmetric_key
                       /\ new.sequence_number = 1
                       /\ e.sequence = 1
                       /\ new.key_id # old.key_id
      ]_vars

\* C35: Heartbeat. A round of the heartbeat loop of a running node sends a heartbeat
\* to each connected peer through the send path: one encryption per connected peer is
\* counted, and the round removes no peer from connected_peers.
C35_HeartbeatSent ==
    [][(mgr_event'.kind = "heartbeat_ran" /\ DOMAIN mgr.connected_peers # {}) =>
          /\ (mgr'.encryption_successes + mgr'.encryption_failures)
                 - (mgr.encryption_successes + mgr.encryption_failures)
               = Cardinality(DOMAIN mgr.connected_peers)
          /\ DOMAIN mgr'.connected_peers = DOMAIN mgr.connected_peers
      ]_vars

\* C36: Cleanup. A round of the cleanup loop of a running node removes from
\* connected_peers every peer whose last_seen is more than 300 s old and no peer whose
\* last_seen is at most 300 s old.
C36_SweepRemovesStale ==
    [][mgr_event'.kind = "cleanup_ran" =>
          \A p \in DOMAIN mgr.connected_peers :
              p \in DOMAIN mgr'.connected_peers
                  <=> now - mgr.connected_peers[p].last_seen <= StaleAfter
      ]_vars

\* C37: A peer with recent activity is kept. A round of the cleanup loop removes no
\* connected peer to which a frame was written with success within the last 300 s.
C37_RecentSendKeepsPeer ==
    [][mgr_event'.kind = "cleanup_ran" =>
          \A p \in DOMAIN mgr.connected_peers :
              (p \in DOMAIN net.written_at /\ now - net.written_at[p] <= StaleAfter)
                  => p \in DOMAIN mgr'.connected_peers
      ]_vars

\* the changes of state of a circuit: CLOSED to OPEN, OPEN to HALF_OPEN, HALF_OPEN to
\* OPEN and HALF_OPEN to CLOSED
CircuitTransitions ==
    {<<CLOSED, OPEN>>, <<OPEN, HALF_OPEN>>, <<HALF_OPEN, OPEN>>, <<HALF_OPEN, CLOSED>>}

\* C38: Circuit transitions. Whatever the calls in flight on a circuit key do, in
\* whatever order, a step that changes the state of the circuit takes it from CLOSED
\* to OPEN, from OPEN to HALF_OPEN, from HALF_OPEN to OPEN or from HALF_OPEN to
\* CLOSED: never from OPEN to CLOSED and never from CLOSED to HALF_OPEN.
C38_CircuitTransitions ==
    [][\A k \in CircuitKeys :
          ft'.circuit_states[k] # ft.circuit_states[k]
              => <<ft.circuit_states[k], ft'.circuit_states[k]>> \in CircuitTransitions
      ]_vars

\* A success returns to an OPEN circuit: the call was admitted before the circuit
\* opened, and other calls are still in flight on the key.
C38_Witness ==
    /\ last_event.kind = "success"
    /\ last_event.from = OPEN
    /\ ft.circuit_states[last_event.key] = OPEN
    /\ \E c \in Frames : c.circuit_key = last_event.key

\* C39: Recovery. When the operation succeeds from some time on, callers keep calling
\* on a key and time goes on, an OPEN circuit of the key becomes HALF_OPEN, and a
\* HALF_OPEN circuit becomes CLOSED and stays CLOSED with no call refused from then on.
C39_Recovery ==
    \A k \in CircuitKeys :
        /\ (ft.circuit_states[k] = OPEN) ~> (ft.circuit_states[k] = HALF_OPEN)
        /\ (ft.circuit_states[k] = HALF_OPEN)
               ~> [](ft.circuit_states[k] = CLOSED /\ last_event.kind # "refused")

\* A circuit that was opened in the first second is CLOSED again, with a success as
\* the last event.
C39_Witness ==
    \E k \in CircuitKeys :
        /\ ft.circuit_states[k] = CLOSED
        /\ k \in DOMAIN ft.last_failure_times
        /\ ft.success_counts[k] >= ft.config.success_threshold
        /\ last_event.kind = "success"
        /\ now > ft.config.timeout_seconds

\* C40: One loop of each kind. Over the starts and stops of a node at most one
\* heartbeat loop and at most one cleanup loop are alive at any time.
C40_OneLoopOfEachKind ==
    /\ Cardinality(Running("heartbeat")) <= 1
    /\ Cardinality(Running("cleanup")) <= 1

====
